---- MODULE Spec2Model ----
(***************************************************************************)
(* Model of the Instagram scrape-and-enrich pipeline:                      *)
(*   app/instagram/comment_fetcher.py   (paginated comment enrichment)     *)
(*   app/instagram/view_fetcher.py      (metrics / owner stub)             *)
(*   app/instagram/profile_fetcher.py   (cached profile resolution)        *)
(*   app/instagram/parser.py            (payload normalisation)            *)
(*   app/services/instagram_scraper.py  (the orchestrator, scrape)         *)
(*                                                                         *)
(* Python values: an Optional value is None (<<>>) or Some(v) (<<v>>);     *)
(* strings that are never None in the code (comment ids, usernames of      *)
(* comments) are plain strings, "" being the empty string.                 *)
(***************************************************************************)
EXTENDS Integers, Sequences, FiniteSets, TLC

VARIABLES
    \* ---- InstagramCrawleeCommentFetcher.fetch_comments / _collect_comments
    fc_pc,          \* "idle" | "loop" | "returned" | "raised"
    fc_args,        \* [shortcode, limit, existing_ids] of the running call
    fc_dedupe,      \* dedupe: set of ids seen
    fc_comments,    \* comments: list collected so far
    fc_page,        \* [mode, cursor, cursor_kind, has_more]: pagination state
    fc_requests,    \* number of page requests issued by the running call
    fc_answer,      \* history: Optional [kind, status, body] of the answer
                    \* to the last page request of the running call
    \* ---- InstagramProfileFetcher (one instance)
    profile_cache,  \* _profile_cache: lowercased username -> Optional profile
    id_cache,       \* _id_cache: lowercased username -> Optional user id
    pf_call,        \* per caller: the fetch_profile call it is running
    pf_first,       \* history: lowercased username -> the first call that
                    \* returned for it: [value, username, cause, requests]
    \* ---- InstagramScraperService and one scrape(url, download_video)
    settings,       \* Settings: include_comments, max_comments
    service,        \* which of the three fetchers the service was given
    sc_pc,          \* where the scrape is
    sc_args,        \* [url, download_video]
    parsed_url,     \* Optional ParsedInstagramUrl
    sc_payload,     \* Optional payload returned by fetch_media_info
    parsed,         \* history: Optional (post, comments) as parse_info_payload gave
    post,           \* Optional InstagramPost
    comments,       \* list of InstagramComment
    owner_stub,     \* Optional owner dict of the metrics details
    owner_username, \* Optional str
    comment_usernames, \* usernames to resolve
    sc_idx,         \* position in comment_usernames
    profile_lookup, \* dict key -> profile
    destination,    \* Optional path handed to download_media
    sc_result,      \* Optional ScrapedMedia returned
    sc_error,       \* exception scrape raised, "" if none
    caught,         \* history: the stages whose exception an except clause
                    \* of scrape caught
    \* ---- components called on their own
    vf_call,        \* the fetch_media_details call: [pc, shortcode, answer,
                    \* details, error]
    url_call,       \* the parse_instagram_url call: [pc, url, out, again]
    pg_call,        \* the pagination of one _collect_comments loop: [pc,
                    \* requests, mode, cursor, cursor_kind, page, request]
    sel_call,       \* the _select_format_url call: [pc, info, out]
    \* ---- the cookie jars of the three fetchers and the sessions built
    cookie_file,    \* history: Optional name -> value read at construction
    cookie_source,  \* _cookie_source of each fetcher: Optional jar
    jars,           \* the jar objects: jar -> (name -> cookie object)
    cookies,        \* the Cookie objects: cookie object -> value
    sessions        \* the sessions built, one per request: [fetcher, jar,
                    \* answered, expected]

fc_vars == <<fc_pc, fc_args, fc_dedupe, fc_comments, fc_page, fc_requests,
             fc_answer>>
pf_vars == <<profile_cache, id_cache, pf_call, pf_first>>
sc_vars == <<settings, service, sc_pc, sc_args, parsed_url, sc_payload, parsed,
             post, comments, owner_stub, owner_username, comment_usernames,
             sc_idx, profile_lookup, destination, sc_result, sc_error, caught>>
cj_vars == <<cookie_file, cookie_source, jars, cookies, sessions>>
unit_vars == <<vf_call, url_call, pg_call, sel_call, cj_vars>>
vars == <<fc_vars, pf_vars, sc_vars, unit_vars>>

----------------------------------------------------------------------------
\* Optional values

None == <<>>
Some(v) == <<v>>
Val(x) == x[1]

\* Python truthiness of an Optional string / Optional int / Optional bool
TruthyStr(x) == x # None /\ Val(x) # ""
TruthyInt(x) == x # None /\ Val(x) # 0

\* Python `a or b` on Optional strings
OrStr(a, b) == IF TruthyStr(a) THEN a ELSE b

\* Python `x or 0` on an Optional int
OrZero(x) == IF TruthyInt(x) THEN Val(x) ELSE 0

Max(a, b) == IF a >= b THEN a ELSE b
Min(a, b) == IF a <= b THEN a ELSE b

Range(s) == {s[i] : i \in DOMAIN s}

\* s[:n] for n >= 0
Take(s, n) == SubSeq(s, 1, Min(n, Len(s)))

\* all sequences over S of length at most n
SeqsUpTo(S, n) == UNION {[1..k -> S] : k \in 0..n}

\* str.strip() and str.lower() on the usernames of the model
Strip(s) ==
    CASE s = " amy" -> "amy"
      [] s = " " -> ""
      [] OTHER -> s
Lower(s) ==
    CASE s = "Amy" -> "amy"
      [] s = "Own" -> "own"
      [] s = "REELS" -> "reels"
      [] OTHER -> s

\* a dict with no entry; d[k] = v added to a dict
EmptyMap == [k \in {} |-> None]
Put(d, k, v) == [x \in DOMAIN d \cup {k} |-> IF x = k THEN v ELSE d[x]]

----------------------------------------------------------------------------
\* Bounds of the model

MaxLimit == 3       \* fetch_comments is called with a limit in 0..MaxLimit
MaxExisting == 2    \* longest existing_ids list fetch_comments is called with
MaxNodes == 2       \* most comment nodes in one upstream page
MaxPages == 3       \* page requests the upstream is followed for
MaxComments == 2    \* settings.max_comments ranges over 0..MaxComments
MaxRaw == 2         \* most comments in the payload of the extractor

----------------------------------------------------------------------------
\* Comment Enrichment Fetcher (app/instagram/comment_fetcher.py)

Ids == {"1", "2", "3"}
Shortcodes == {"", "Cx1", "?"}

\* InstagramComment: id and username are str, profile is Optional
Comment(id, username) == [id |-> id, username |-> username, profile |-> None]

\* A comment node of a page: id "" stands for a node with neither id nor pk
Nodes == [id : Ids \cup {""}, username : {"own"}]

\* yt_dlp's _id_to_pk raises on a shortcode outside its alphabet
IdToPkRaises(shortcode) == shortcode = "?"

\* _build_comment: None when the node has no identifier
BuildComment(node) ==
    IF node.id = "" THEN None ELSE Some(Comment(node.id, node.username))

\* faulty variant of LimitReached: the break of line 108 left out
LimitNeverReached(dedupe, limit) == FALSE

\* line 108: if len(dedupe) >= limit: break
LimitReached(dedupe, limit) == Cardinality(dedupe) >= limit

\* the for loop of _collect_comments over the nodes of one page, from node i
RECURSIVE CollectNodes(_, _, _, _, _)
CollectNodes(nodes, i, dedupe, cs, limit) ==
    IF i > Len(nodes) THEN [dedupe |-> dedupe, comments |-> cs]
    ELSE LET comment == BuildComment(nodes[i]) IN
         IF comment = None \/ Val(comment).id = "" \/ Val(comment).id \in dedupe
         THEN CollectNodes(nodes, i + 1, dedupe, cs, limit)
         ELSE LET d == dedupe \cup {Val(comment).id}
                  c == Append(cs, Val(comment))
              IN IF LimitReached(d, limit)
                 THEN [dedupe |-> d, comments |-> c]
                 ELSE CollectNodes(nodes, i + 1, d, c, limit)

\* bool(has_more if has_more is not None else True)
HasMoreFlag(first, second) ==
    LET has_more == IF first # None THEN first ELSE second
    IN IF has_more # None THEN Val(has_more) ELSE TRUE

\* _extract_pagination_state
ExtractPaginationState(payload, current_mode) ==
    IF /\ payload.container
       /\ payload.page_info # None
       /\ TruthyStr(Val(payload.page_info).end_cursor)
       /\ Val(payload.page_info).has_next_page
    THEN [mode |-> "graphql", cursor |-> Val(payload.page_info).end_cursor,
          cursor_kind |-> Some("after"), has_more |-> TRUE]
    ELSE IF TruthyStr(payload.next_max_id)
    THEN [mode |-> "api_v1", cursor |-> payload.next_max_id,
          cursor_kind |-> Some("max_id"),
          has_more |-> HasMoreFlag(payload.has_more_comments,
                                   payload.has_more_headload_comments)]
    ELSE IF TruthyStr(payload.next_min_id)
    THEN [mode |-> "api_v1", cursor |-> payload.next_min_id,
          cursor_kind |-> Some("min_id"),
          has_more |-> HasMoreFlag(payload.has_more_headload_comments,
                                   payload.has_more_comments)]
    ELSE [mode |-> current_mode, cursor |-> None, cursor_kind |-> None,
          has_more |-> FALSE]

\* _fetch_page: does this response make the page request raise?
\* (send_request failing, a status >= 400, a body that is not JSON; a failing
\* read() or decode() and a JSON body that is no object are not caught there
\* but are wrapped by fetch_comments' `except Exception`)
\* variant of _fetch_page: the status of the answer is not looked at
FetchPageRaisesIgnoringStatus(resp) ==
    \/ resp.kind \in {"net_error", "read_error"}
    \/ resp.kind = "http" /\ resp.body.kind \in {"bad_json", "bad_utf8", "not_object"}

FetchPageRaises(resp) ==
    \/ resp.kind \in {"net_error", "read_error"}
    \/ resp.kind = "http" /\ resp.status >= 400
    \/ resp.kind = "http" /\ resp.body.kind \in {"bad_json", "bad_utf8", "not_object"}

\* the upstream's answers to one page request
PageInfo(end_cursor, has_next_page) ==
    Some([end_cursor |-> end_cursor, has_next_page |-> has_next_page])
Pagination(page_info, next_max_id, next_min_id, has_more, has_more_headload) ==
    [page_info |-> page_info, next_max_id |-> next_max_id,
     next_min_id |-> next_min_id, has_more_comments |-> has_more,
     has_more_headload_comments |-> has_more_headload]
Paginations ==
    {Pagination(None, None, None, None, None),
     Pagination(None, None, None, Some(TRUE), None),
     Pagination(PageInfo(Some("g1"), TRUE), None, None, None, None),
     Pagination(PageInfo(Some("g1"), TRUE), Some("m1"), None, Some(FALSE), None),
     Pagination(PageInfo(Some("g1"), FALSE), Some("m1"), None, None, None),
     Pagination(PageInfo(Some(""), TRUE), None, Some("n1"), None, None),
     Pagination(None, Some("m1"), None, None, None),
     Pagination(None, Some("m1"), None, Some(TRUE), Some(FALSE)),
     Pagination(None, Some("m1"), None, Some(FALSE), None),
     Pagination(None, Some("m1"), None, None, Some(FALSE)),
     Pagination(None, Some("m1"), Some("n1"), None, None),
     Pagination(None, None, Some("n1"), None, None),
     Pagination(None, None, Some("n1"), Some(FALSE), Some(TRUE)),
     Pagination(None, None, Some("n1"), Some(FALSE), None)}
PagePayloads ==
    {[kind |-> "object", container |-> pg.page_info # None, nodes |-> ns,
      page_info |-> pg.page_info, next_max_id |-> pg.next_max_id,
      next_min_id |-> pg.next_min_id, has_more_comments |-> pg.has_more_comments,
      has_more_headload_comments |-> pg.has_more_headload_comments] :
        ns \in SeqsUpTo(Nodes, MaxNodes), pg \in Paginations}
FcResponses ==
    {[kind |-> "net_error"], [kind |-> "read_error"],
     [kind |-> "http", status |-> 429, body |-> [kind |-> "empty_object"]],
     [kind |-> "http", status |-> 200, body |-> [kind |-> "bad_json"]],
     [kind |-> "http", status |-> 200, body |-> [kind |-> "not_object"]],
     [kind |-> "http", status |-> 200, body |-> [kind |-> "empty_object"]]}
    \cup {[kind |-> "http", status |-> 200, body |-> p] : p \in PagePayloads}
    \cup {[kind |-> "http", status |-> 302, body |-> p] :
            p \in {q \in PagePayloads :
                     /\ q.page_info = None /\ q.next_max_id = None
                     /\ q.next_min_id = None /\ q.has_more_comments = None}}

InitFC ==
    /\ fc_pc = "idle"
    /\ fc_args = [shortcode |-> "", limit |-> 0, existing_ids |-> <<>>]
    /\ fc_dedupe = {}
    /\ fc_comments = <<>>
    /\ fc_page = [mode |-> "api_v1", cursor |-> None, cursor_kind |-> None,
                  has_more |-> FALSE]
    /\ fc_requests = 0
    /\ fc_answer = None

\* the call of fetch_comments is over and its locals are gone
FetchCommentsDone ==
    /\ fc_pc' = "idle"
    /\ fc_args' = [shortcode |-> "", limit |-> 0, existing_ids |-> <<>>]
    /\ fc_dedupe' = {}
    /\ fc_comments' = <<>>
    /\ fc_page' = [mode |-> "api_v1", cursor |-> None, cursor_kind |-> None,
                   has_more |-> FALSE]
    /\ fc_requests' = 0
    /\ fc_answer' = None

\* variant of fetch_comments: the early returns of lines 51-53 and 59-61 left out
FetchCommentsCallNoShortCircuit(shortcode, limit, existing_ids) ==
    /\ fc_args' = [shortcode |-> shortcode, limit |-> limit,
                   existing_ids |-> existing_ids]
    /\ fc_comments' = <<>>
    /\ fc_page' = [mode |-> "api_v1", cursor |-> None, cursor_kind |-> None,
                   has_more |-> FALSE]
    /\ fc_requests' = 0
    /\ fc_answer' = None
    /\ fc_pc' = "loop"
    /\ fc_dedupe' = {id \in Range(existing_ids) : id # ""}

\* fetch_comments up to the first page request
FetchCommentsCall(shortcode, limit, existing_ids) ==
    LET dedupe == {id \in Range(existing_ids) : id # ""}
        remaining == limit - Cardinality(dedupe)
    IN /\ fc_args' = [shortcode |-> shortcode, limit |-> limit,
                      existing_ids |-> existing_ids]
       /\ fc_comments' = <<>>
       /\ fc_page' = [mode |-> "api_v1", cursor |-> None, cursor_kind |-> None,
                      has_more |-> FALSE]
       /\ fc_requests' = 0
       /\ fc_answer' = None
       /\ IF shortcode = "" \/ limit <= 0 \/ remaining <= 0
          THEN fc_pc' = "returned" /\ fc_dedupe' = {}
          ELSE IF IdToPkRaises(shortcode)
          THEN fc_pc' = "raised" /\ fc_dedupe' = {}
          ELSE fc_pc' = "loop" /\ fc_dedupe' = dedupe

\* while len(dedupe) + len(comments) < limit
LoopContinues(dedupe, cs, limit) ==
    Cardinality(dedupe) + Len(cs) < limit

\* variant of the page request: the cursor always goes out as max_id
PageRequestAlwaysMaxId(mode, cursor, cursor_kind) ==
    [endpoint |-> "api_v1",
     params |-> IF TruthyStr(cursor) THEN [max_id |-> Val(cursor)] ELSE EmptyMap]

\* lines 131-138, with _build_graphql_request and _build_api_params: the
\* endpoint of a page request and the parameter its cursor goes out in
PageRequest(mode, cursor, cursor_kind) ==
    IF mode = "graphql"
    THEN [endpoint |-> "graphql",
          params |-> IF TruthyStr(cursor) THEN [after |-> Val(cursor)] ELSE EmptyMap]
    ELSE [endpoint |-> "api_v1",
          params |-> IF ~TruthyStr(cursor) THEN EmptyMap
                     ELSE IF cursor_kind = Some("min_id") THEN [min_id |-> Val(cursor)]
                     ELSE IF cursor_kind = Some("cursor") THEN [cursor |-> Val(cursor)]
                     ELSE [max_id |-> Val(cursor)]]

\* one iteration of the while loop of _collect_comments: a page request, the
\* nodes of its answer, the next pagination state, and the loop test
FetchCommentsPage(resp) ==
    /\ fc_pc = "loop"
    /\ fc_requests < MaxPages
    /\ fc_requests' = fc_requests + 1
    /\ fc_args' = fc_args
    /\ fc_answer' = Some(IF resp.kind = "http"
                         THEN [kind |-> "http", status |-> resp.status,
                               body |-> resp.body.kind]
                         ELSE [kind |-> resp.kind, status |-> 0, body |-> ""])
    /\ IF FetchPageRaises(resp)
       THEN fc_pc' = "raised" /\ UNCHANGED <<fc_dedupe, fc_comments, fc_page>>
       ELSE IF resp.body.kind = "empty_object"
       THEN fc_pc' = "returned" /\ UNCHANGED <<fc_dedupe, fc_comments, fc_page>>
       ELSE LET got == CollectNodes(resp.body.nodes, 1, fc_dedupe, fc_comments,
                                    fc_args.limit)
                nxt == ExtractPaginationState(resp.body, fc_page.mode)
            IN /\ fc_dedupe' = got.dedupe
               /\ fc_comments' = got.comments
               /\ fc_page' = [mode |-> nxt.mode, cursor |-> nxt.cursor,
                              cursor_kind |-> nxt.cursor_kind,
                              has_more |-> nxt.has_more]
               /\ fc_pc' = IF /\ nxt.has_more
                              /\ TruthyStr(nxt.cursor)
                              /\ LoopContinues(got.dedupe, got.comments,
                                               fc_args.limit)
                           THEN "loop" ELSE "returned"

\* a caller invoking fetch_comments on the fetcher
FC_Call ==
    /\ fc_pc = "idle"
    /\ \E shortcode \in Shortcodes, limit \in 0..MaxLimit,
          existing_ids \in SeqsUpTo(Ids \cup {""}, MaxExisting) :
            FetchCommentsCall(shortcode, limit, existing_ids)
    /\ UNCHANGED <<pf_vars, sc_vars, unit_vars>>

FC_Page ==
    /\ \E resp \in FcResponses : FetchCommentsPage(resp)
    /\ UNCHANGED <<pf_vars, sc_vars, unit_vars>>

\* the caller takes the list or the error of the finished call
FC_Return ==
    /\ fc_pc \in {"returned", "raised"}
    /\ FetchCommentsDone
    /\ UNCHANGED <<pf_vars, sc_vars, unit_vars>>

NextFC == FC_Call \/ FC_Page \/ FC_Return

\* the pagination of the loop of _collect_comments taken alone (lines 86-88
\* and 111-115 of a call whose limit no page reaches): the answer to the page
\* request awaited gives the next state, and the loop ends or goes on to the
\* next request, built from that state
PG_Page ==
    /\ pg_call.pc = "loop"
    /\ pg_call.requests < MaxPages
    /\ \E payload \in PagePayloads :
        LET nxt == ExtractPaginationState(payload, pg_call.mode) IN
        pg_call' = [pc |-> IF nxt.has_more /\ TruthyStr(nxt.cursor)
                           THEN "loop" ELSE "returned",
                    requests |-> pg_call.requests + 1,
                    mode |-> nxt.mode, cursor |-> nxt.cursor,
                    cursor_kind |-> nxt.cursor_kind, page |-> Some(payload),
                    request |-> IF nxt.has_more /\ TruthyStr(nxt.cursor)
                                THEN Some(PageRequest(nxt.mode, nxt.cursor,
                                                      nxt.cursor_kind))
                                ELSE None]
    /\ UNCHANGED <<fc_vars, pf_vars, sc_vars, vf_call, url_call, sel_call, cj_vars>>

----------------------------------------------------------------------------
\* Profile Resolver (app/instagram/profile_fetcher.py)

Callers == {"c1", "c2"}

\* the usernames fetch_profile is called with
Usernames == {"", " ", "amy", "Amy", " amy", "own"}

\* InstagramProfile
Profile(username, full_name, biography, posts, followers, following, pic) ==
    [username |-> username, full_name |-> full_name, biography |-> biography,
     posts |-> posts, followers |-> followers, following |-> following,
     profile_pic_url |-> pic]

\* answers of the username search (topsearch): the `users` list of the JSON
SearchEntries ==
    [username : {None, Some("amy"), Some("Amy"), Some("own")},
     pk : {None, Some("7")}]
SearchResponses ==
    {[kind |-> "net_error"], [kind |-> "read_error"],
     [kind |-> "http", status |-> 429, body |-> [kind |-> "bad_json"]],
     [kind |-> "http", status |-> 404, body |-> [kind |-> "object", users |-> <<>>]],
     [kind |-> "http", status |-> 200, body |-> [kind |-> "bad_json"]],
     [kind |-> "http", status |-> 200, body |-> [kind |-> "bad_utf8"]],
     [kind |-> "http", status |-> 200, body |-> [kind |-> "not_object"]]}
    \cup {[kind |-> "http", status |-> 200,
           body |-> [kind |-> "object", users |-> us]] :
            us \in SeqsUpTo(SearchEntries, 1)}

\* answers of the user-info endpoint: the `user` object of the JSON;
\* hd_info is the hd_profile_pic_url_info entry: "absent", "null" or "dict"
FullUser ==
    [username |-> Some("amy"), full_name |-> Some("Amy A"), biography |-> Some("bio"),
     media_count |-> Some(5), follower_count |-> Some(9), following_count |-> Some(2),
     profile_pic_url_hd |-> Some("hd.jpg"), hd_info |-> "absent",
     profile_pic_url |-> Some("pic.jpg")]
BareUser ==
    [username |-> None, full_name |-> None, biography |-> Some(""),
     media_count |-> None, follower_count |-> None, following_count |-> None,
     profile_pic_url_hd |-> None, hd_info |-> "absent", profile_pic_url |-> None]
NullPicUser == [BareUser EXCEPT !.hd_info = "null"]
InfoUsers == {FullUser, BareUser, NullPicUser}
InfoResponses ==
    {[kind |-> "net_error"], [kind |-> "read_error"],
     [kind |-> "http", status |-> 403, body |-> [kind |-> "bad_json"]],
     [kind |-> "http", status |-> 200, body |-> [kind |-> "bad_json"]],
     [kind |-> "http", status |-> 200, body |-> [kind |-> "bad_utf8"]],
     [kind |-> "http", status |-> 200, body |-> [kind |-> "not_object"]],
     [kind |-> "http", status |-> 200, body |-> [kind |-> "object", user |-> None]]}
    \cup {[kind |-> "http", status |-> 200,
           body |-> [kind |-> "object", user |-> Some(u)]] : u \in InfoUsers}

\* The outcome of a step that returns or raises
Returned(v) == [raised |-> "", value |-> v]
Raised(e) == [raised |-> e, value |-> None]

\* _extract_user_id over the entries from index i
RECURSIVE ExtractUserId(_, _, _)
ExtractUserId(users, i, username) ==
    IF i > Len(users) THEN None
    ELSE LET candidate == IF TruthyStr(users[i].username)
                          THEN Val(users[i].username) ELSE ""
         IN IF Lower(candidate) = Lower(username) /\ users[i].pk # None
            THEN users[i].pk
            ELSE ExtractUserId(users, i + 1, username)

\* faulty variant of ResolveUserIdRequest: an error status raises, as it
\* does for the metrics request
ResolveUserIdRequestRaising(resp, username) ==
    IF resp.kind \in {"net_error", "read_error"} THEN Raised("ProfileFetchError")
    ELSE IF resp.status >= 400 THEN Raised("ProfileFetchError")
    ELSE IF resp.body.kind = "bad_utf8" THEN Raised("UnicodeDecodeError")
    ELSE IF resp.body.kind = "bad_json" THEN Raised("ProfileFetchError")
    ELSE IF resp.body.kind = "not_object" THEN Returned(None)
    ELSE Returned(ExtractUserId(resp.body.users, 1, username))

\* the request of _resolve_user_id: the user id found, or the exception
\* (id_none: the id to record as None without reading the body)
ResolveUserIdRequest(resp, username) ==
    IF resp.kind \in {"net_error", "read_error"} THEN Raised("ProfileFetchError")
    ELSE IF resp.status >= 400 THEN Returned(None)
    ELSE IF resp.body.kind = "bad_utf8" THEN Raised("UnicodeDecodeError")
    ELSE IF resp.body.kind = "bad_json" THEN Raised("ProfileFetchError")
    ELSE IF resp.body.kind = "not_object" THEN Returned(None)
    ELSE Returned(ExtractUserId(resp.body.users, 1, username))

\* _fetch_user_payload: the payload (a body), or the exception
FetchUserPayload(resp) ==
    IF resp.kind \in {"net_error", "read_error"} THEN Raised("ProfileFetchError")
    ELSE IF resp.status >= 400 THEN Returned([kind |-> "object", user |-> None])
    ELSE IF resp.body.kind = "bad_utf8" THEN Raised("UnicodeDecodeError")
    ELSE IF resp.body.kind = "bad_json" THEN Raised("ProfileFetchError")
    ELSE Returned(resp.body)

\* _build_profile: Optional profile, or AttributeError on a null
\* hd_profile_pic_url_info
BuildProfile(payload, fallback_username) ==
    IF payload.kind # "object" \/ payload.user = None THEN Returned(None)
    ELSE LET user == Val(payload.user) IN
         IF ~TruthyStr(user.profile_pic_url_hd) /\ user.hd_info = "null"
         THEN Raised("AttributeError")
         ELSE Returned(Some(Profile(
                IF TruthyStr(user.username) THEN Val(user.username)
                ELSE fallback_username,
                user.full_name,
                IF TruthyStr(user.biography) THEN user.biography ELSE None,
                user.media_count, user.follower_count, user.following_count,
                OrStr(user.profile_pic_url_hd, user.profile_pic_url))))

\* faulty variant of CacheKey: the username is not lowercased
CacheKeyExact(username) == username

\* the key fetch_profile caches under
CacheKey(username) == Lower(username)

\* a call of fetch_profile; history fields: requests (answers received),
\* cause (why the upstream made it find nobody: "status", "no_match" or ""),
\* prior (the first call that returned for the same lowercased username)
IdleCall ==
    [pc |-> "idle", username |-> "", user_id |-> None, result |-> None,
     error |-> "", requests |-> 0, cause |-> "", prior |-> None]

InitPF ==
    /\ profile_cache = EmptyMap
    /\ id_cache = EmptyMap
    /\ pf_call = [c \in Callers |-> IdleCall]
    /\ pf_first = EmptyMap

\* a call returning `value`: the history keeps the first return per username
PfReturn(c, call, value) ==
    LET name == Lower(call.username) IN
    /\ pf_call' = [pf_call EXCEPT ![c] =
                     [call EXCEPT !.pc = "returned", !.result = value]]
    /\ pf_first' = IF call.username = "" \/ name \in DOMAIN pf_first
                   THEN pf_first
                   ELSE Put(pf_first, name,
                            [value |-> value, username |-> call.username,
                             cause |-> call.cause,
                             requests |-> call.requests])

PfRaise(c, call, e) ==
    /\ pf_call' = [pf_call EXCEPT ![c] = [call EXCEPT !.pc = "raised", !.error = e]]
    /\ pf_first' = pf_first

\* fetch_profile up to its first request (or its return without one)
FetchProfileCall(c, raw_username) ==
    LET username == Strip(raw_username)
        key == CacheKey(username)
        call == [IdleCall EXCEPT !.username = username,
                    !.prior = IF Lower(username) \in DOMAIN pf_first
                              THEN Some(pf_first[Lower(username)]) ELSE None]
    IN IF username = ""
       THEN PfReturn(c, call, None) /\ UNCHANGED <<profile_cache, id_cache>>
       ELSE IF key \in DOMAIN profile_cache
       THEN PfReturn(c, call, profile_cache[key])
            /\ UNCHANGED <<profile_cache, id_cache>>
       ELSE IF key \in DOMAIN id_cache
       THEN IF id_cache[key] = None
            THEN /\ profile_cache' = Put(profile_cache, key, None)
                 /\ id_cache' = id_cache
                 /\ PfReturn(c, call, None)
            ELSE /\ pf_call' = [pf_call EXCEPT ![c] =
                      [call EXCEPT !.pc = "info", !.user_id = id_cache[key]]]
                 /\ UNCHANGED <<profile_cache, id_cache, pf_first>>
       ELSE /\ pf_call' = [pf_call EXCEPT ![c] = [call EXCEPT !.pc = "search"]]
            /\ UNCHANGED <<profile_cache, id_cache, pf_first>>

\* the answer of the search request arrives: rest of _resolve_user_id, and
\* fetch_profile up to the user-info request
FetchProfileSearch(c, resp) ==
    LET call == [pf_call[c] EXCEPT !.requests = @ + 1,
                    !.cause = IF resp.kind # "http" THEN ""
                              ELSE IF resp.status >= 400 THEN "status"
                              ELSE IF /\ resp.body.kind = "object"
                                      /\ \A i \in DOMAIN resp.body.users :
                                           \/ resp.body.users[i].username = None
                                           \/ Lower(Val(resp.body.users[i].username))
                                                # Lower(pf_call[c].username)
                              THEN "no_match" ELSE ""]
        key == CacheKey(call.username)
        got == ResolveUserIdRequest(resp, call.username)
    IN /\ pf_call[c].pc = "search"
       /\ IF got.raised # ""
          THEN PfRaise(c, call, got.raised) /\ UNCHANGED <<profile_cache, id_cache>>
          ELSE /\ id_cache' = Put(id_cache, key, got.value)
               /\ IF ~TruthyStr(got.value)
                  THEN /\ profile_cache' = Put(profile_cache, key, None)
                       /\ PfReturn(c, call, None)
                  ELSE /\ pf_call' = [pf_call EXCEPT ![c] =
                            [call EXCEPT !.pc = "info", !.user_id = got.value]]
                       /\ UNCHANGED <<profile_cache, pf_first>>

\* the answer of the user-info request arrives: _build_profile, the cache
\* write, and the start of the pacing sleep
FetchProfileInfo(c, resp) ==
    LET call == [pf_call[c] EXCEPT !.requests = @ + 1,
                    !.cause = IF resp.kind = "http" /\ resp.status >= 400
                              THEN "status" ELSE ""]
        key == CacheKey(call.username)
        got == FetchUserPayload(resp)
        built == BuildProfile(got.value, call.username)
    IN /\ pf_call[c].pc = "info"
       /\ id_cache' = id_cache
       /\ IF got.raised # ""
          THEN PfRaise(c, call, got.raised) /\ profile_cache' = profile_cache
          ELSE IF built.raised # ""
          THEN PfRaise(c, call, built.raised) /\ profile_cache' = profile_cache
          ELSE /\ profile_cache' = Put(profile_cache, key, built.value)
               /\ pf_call' = [pf_call EXCEPT ![c] =
                    [call EXCEPT !.pc = "sleep", !.result = built.value]]
               /\ pf_first' = pf_first

\* asyncio.sleep(self._request_delay) is over: return profile
FetchProfileWake(c) ==
    /\ pf_call[c].pc = "sleep"
    /\ PfReturn(c, pf_call[c], pf_call[c].result)
    /\ UNCHANGED <<profile_cache, id_cache>>

PfRunning(c) == pf_call[c].pc \in {"search", "info", "sleep"}

\* callers using the instance one call after another
PF_Call ==
    /\ \E c \in Callers, username \in Usernames :
        /\ \A d \in Callers : ~PfRunning(d)
        /\ FetchProfileCall(c, username)
    /\ UNCHANGED <<fc_vars, sc_vars, unit_vars>>

PF_Search ==
    /\ \E c \in Callers, resp \in SearchResponses : FetchProfileSearch(c, resp)
    /\ UNCHANGED <<fc_vars, sc_vars, unit_vars>>

PF_Info ==
    /\ \E c \in Callers, resp \in InfoResponses : FetchProfileInfo(c, resp)
    /\ UNCHANGED <<fc_vars, sc_vars, unit_vars>>

PF_Wake ==
    /\ \E c \in Callers : FetchProfileWake(c)
    /\ UNCHANGED <<fc_vars, sc_vars, unit_vars>>

NextPF == PF_Call \/ PF_Search \/ PF_Info \/ PF_Wake

\* callers of concurrent scrapes sharing the instance: a caller starts a call
\* whenever it is not inside one, whatever the other callers are doing; the
\* usernames are two spellings of one key
PF_CallConcurrent ==
    /\ \E c \in Callers, username \in {"amy", "Amy"} :
        /\ ~PfRunning(c)
        /\ FetchProfileCall(c, username)
    /\ UNCHANGED <<fc_vars, sc_vars, unit_vars>>

NextPFC == PF_CallConcurrent \/ PF_Search \/ PF_Info \/ PF_Wake

----------------------------------------------------------------------------
\* Metrics/Owner Fetcher (app/instagram/view_fetcher.py)

\* items[0] of the info payload: the attached-music asset stands for the
\* audio sources, `user` for the owner/user sub-object
Media(view_count, comment_count, caption_text, music, user) ==
    [view_count |-> view_count, comment_count |-> comment_count,
     caption_text |-> caption_text, music |-> music, user |-> user]
MusicAsset ==
    [title |-> Some("song"), display_artist |-> Some("band"), id |-> Some("a1"),
     progressive_download_url |-> Some("http://a.mp3")]
SilentAsset ==
    [title |-> None, display_artist |-> None, id |-> None,
     progressive_download_url |-> Some("ftp://a.mp3")]
MediaUser(username, full_name, biography, media_count, followers, following, pic) ==
    [username |-> username, full_name |-> full_name, biography |-> biography,
     media_count |-> media_count, follower_count |-> followers,
     following_count |-> following, profile_pic_url |-> pic]
OwnUser ==
    MediaUser(Some("Own"), Some("Owner"), Some("stub bio"), Some(3), Some(4),
              Some(1), Some("o.jpg"))
AmyUser == MediaUser(Some("Amy"), None, Some("stub bio"), None, None, None, None)
AnonUser == MediaUser(None, None, None, Some(3), None, None, None)
EmptyUser == MediaUser(None, None, None, Some(0), None, None, None)
MediaItems ==
    {Media(Some(9), Some(5), Some("new cap"), Some(MusicAsset), Some(OwnUser)),
     Media(None, Some(1), Some(" "), Some(SilentAsset), Some(AnonUser)),
     Media(Some(0), Some(0), None, None, Some(AmyUser)),
     Media(None, None, None, None, Some(EmptyUser))}
InfoPayloadResponses ==
    {[kind |-> "net_error"], [kind |-> "read_error"],
     [kind |-> "http", status |-> 429, body |-> [kind |-> "bad_json"]],
     [kind |-> "http", status |-> 200, body |-> [kind |-> "bad_json"]],
     [kind |-> "http", status |-> 200, body |-> [kind |-> "bad_utf8"]],
     [kind |-> "http", status |-> 200, body |-> [kind |-> "not_object"]],
     [kind |-> "http", status |-> 200, body |-> [kind |-> "object", item |-> None]]}
    \cup {[kind |-> "http", status |-> 200,
           body |-> [kind |-> "object", item |-> Some(m)]] : m \in MediaItems}

\* _fetch_info_payload before the request: the shortcode checks
FetchInfoPayloadPrecheck(shortcode) ==
    IF shortcode = "" \/ IdToPkRaises(shortcode)
    THEN Raised("ViewFetchError") ELSE Returned(None)

\* variant of _fetch_info_payload: an error status gives an empty payload
FetchInfoPayloadEmptyOnStatus(resp) ==
    IF resp.kind = "net_error" THEN Raised("ViewFetchError")
    ELSE IF resp.kind = "read_error" THEN Raised("ReadError")
    ELSE IF resp.status >= 400 THEN Returned([kind |-> "object", item |-> None])
    ELSE IF resp.body.kind = "bad_utf8" THEN Raised("UnicodeDecodeError")
    ELSE IF resp.body.kind = "bad_json" THEN Raised("ViewFetchError")
    ELSE Returned(resp.body)

\* _fetch_info_payload from the answer on: response.read() is outside the
\* try, and only JSONDecodeError is caught around the decoding
FetchInfoPayload(resp) ==
    IF resp.kind = "net_error" THEN Raised("ViewFetchError")
    ELSE IF resp.kind = "read_error" THEN Raised("ReadError")
    ELSE IF resp.status >= 400 THEN Raised("ViewFetchError")
    ELSE IF resp.body.kind = "bad_utf8" THEN Raised("UnicodeDecodeError")
    ELSE IF resp.body.kind = "bad_json" THEN Raised("ViewFetchError")
    ELSE Returned(resp.body)

\* _extract_caption: stripped text, empty becomes None
StripCaption(text) == IF text = Some(" ") THEN Some("") ELSE text
ExtractCaption(item) ==
    IF item = None THEN None
    ELSE IF TruthyStr(StripCaption(Val(item).caption_text))
    THEN StripCaption(Val(item).caption_text) ELSE None

\* _normalize_audio_url: only http(s) URLs are kept
NormalizeAudioUrl(url) == IF url = Some("http://a.mp3") THEN url ELSE None

\* _extract_audio_info
ExtractAudioInfo(item) ==
    IF item = None \/ Val(item).music = None THEN None
    ELSE LET asset == Val(Val(item).music)
             audio_url == NormalizeAudioUrl(asset.progressive_download_url)
         IN IF \/ TruthyStr(asset.title) \/ TruthyStr(asset.display_artist)
               \/ TruthyStr(asset.id) \/ TruthyStr(audio_url)
            THEN Some([title |-> asset.title, artist |-> asset.display_artist,
                       audio_id |-> asset.id, audio_url |-> audio_url])
            ELSE None

\* _extract_owner_info: None when every field is empty
ExtractOwnerInfo(item) ==
    IF item = None \/ Val(item).user = None THEN None
    ELSE LET user == Val(Val(item).user) IN
         IF \/ TruthyStr(user.username) \/ TruthyStr(user.full_name)
            \/ TruthyStr(user.biography) \/ TruthyInt(user.media_count)
            \/ TruthyInt(user.follower_count) \/ TruthyInt(user.following_count)
            \/ TruthyStr(user.profile_pic_url)
         THEN Some([username |-> user.username, full_name |-> user.full_name,
                    biography |-> user.biography, posts |-> user.media_count,
                    followers |-> user.follower_count,
                    following |-> user.following_count,
                    profile_pic_url |-> user.profile_pic_url])
         ELSE None

\* fetch_media_details on the payload: the details dict, or AttributeError
\* when the JSON is not an object (payload.get)
FetchMediaDetails(payload) ==
    IF payload.kind # "object" THEN Raised("AttributeError")
    ELSE Returned(
        [view_count |-> IF payload.item = None THEN None
                        ELSE Val(payload.item).view_count,
         comment_count |-> IF payload.item = None THEN None
                           ELSE IF TruthyInt(Val(payload.item).comment_count)
                           THEN Val(payload.item).comment_count ELSE None,
         caption |-> ExtractCaption(payload.item),
         audio |-> ExtractAudioInfo(payload.item),
         owner |-> ExtractOwnerInfo(payload.item)])

\* the answers of the info endpoint to a call made on its own: any of these
\* statuses with any of the bodies
VfResponses ==
    LET items ==
            {Media(v, c, cap, m, u) :
                v \in {None, Some(0), Some(9)}, c \in {None, Some(0), Some(5)},
                cap \in {None, Some(" "), Some("new cap")},
                m \in {None, Some(MusicAsset), Some(SilentAsset)},
                u \in {None, Some(OwnUser), Some(EmptyUser)}}
        bodies ==
            {[kind |-> "bad_json"], [kind |-> "bad_utf8"],
             [kind |-> "not_object"], [kind |-> "object", item |-> None]}
            \cup {[kind |-> "object", item |-> Some(m)] : m \in items}
    IN {[kind |-> "net_error"], [kind |-> "read_error"]}
       \cup {[kind |-> "http", status |-> st, body |-> b] :
                st \in {200, 204, 302, 400, 403, 404, 429, 500}, b \in bodies}

\* no fetch_media_details call made yet
IdleVf ==
    [pc |-> "idle", shortcode |-> "", answer |-> None, details |-> None,
     error |-> ""]

\* fetch_media_details(shortcode) up to the request
VF_Call ==
    /\ vf_call.pc # "request"
    /\ \E shortcode \in Shortcodes :
        LET pre == FetchInfoPayloadPrecheck(shortcode) IN
        vf_call' = IF pre.raised # ""
                   THEN [IdleVf EXCEPT !.pc = "raised", !.shortcode = shortcode,
                                       !.error = pre.raised]
                   ELSE [IdleVf EXCEPT !.pc = "request", !.shortcode = shortcode]
    /\ UNCHANGED <<fc_vars, pf_vars, sc_vars, url_call, pg_call, sel_call, cj_vars>>

\* fetch_media_details from the answer of the endpoint to its return
VF_Answer ==
    /\ vf_call.pc = "request"
    /\ \E resp \in VfResponses :
        LET got == FetchInfoPayload(resp)
            out == IF got.raised # "" THEN got ELSE FetchMediaDetails(got.value)
        IN vf_call' =
             IF out.raised # ""
             THEN [vf_call EXCEPT !.pc = "raised", !.answer = Some(resp),
                                  !.error = out.raised]
             ELSE [vf_call EXCEPT !.pc = "returned", !.answer = Some(resp),
                                  !.details = Some(out.value)]
    /\ UNCHANGED <<fc_vars, pf_vars, sc_vars, url_call, pg_call, sel_call, cj_vars>>
NextVF == VF_Call \/ VF_Answer

----------------------------------------------------------------------------
\* Payload Parser (app/instagram/parser.py)

\* entries of the `formats` list and the payloads of the extractor
Format(height, url, manifest_url) ==
    [height |-> height, url |-> url, manifest_url |-> manifest_url]
RawComments ==
    {[id |-> Some("1"), author |-> Some("amy")],
     [id |-> None, author |-> Some("Amy")]}
PostParts ==
    {[has_id |-> TRUE, id |-> "Cx1", description |-> Some("cap #t @m"),
      uploader_id |-> Some("own"), uploader |-> Some("Owner"),
      comment_count |-> Some(3), view_count |-> Some(7),
      url |-> Some("v.mp4"), formats |-> <<>>, webpage_url |-> Some("page")],
     [has_id |-> TRUE, id |-> "Cx1", description |-> None,
      uploader_id |-> None, uploader |-> None,
      comment_count |-> None, view_count |-> None,
      url |-> None, formats |-> <<Format(Some(720), None, Some("m.mpd"))>>,
      webpage_url |-> None],
     [has_id |-> TRUE, id |-> "?", description |-> None,
      uploader_id |-> Some("Amy"), uploader |-> None,
      comment_count |-> Some(1), view_count |-> None,
      url |-> Some("v.mp4"), formats |-> <<>>, webpage_url |-> None],
     [has_id |-> TRUE, id |-> "Cx1", description |-> None,
      uploader_id |-> None, uploader |-> None,
      comment_count |-> None, view_count |-> None,
      url |-> None, formats |-> <<>>, webpage_url |-> None],
     [has_id |-> FALSE, id |-> "", description |-> None,
      uploader_id |-> None, uploader |-> None,
      comment_count |-> None, view_count |-> None,
      url |-> Some("v.mp4"), formats |-> <<>>, webpage_url |-> None]}
Payloads ==
    {[post |-> pp, comments |-> cs] :
        pp \in PostParts, cs \in SeqsUpTo(RawComments, MaxRaw)}

\* index of the first format of greatest height among those that have one
\* (sorted(..., reverse=True) is stable), 0 when none has a height
TallestFormat(formats) ==
    LET usable == {i \in DOMAIN formats : formats[i].height # None}
    IN IF usable = {} THEN 0
       ELSE CHOOSE i \in usable :
              \A j \in usable :
                \/ Val(formats[j].height) < Val(formats[i].height)
                \/ Val(formats[j].height) = Val(formats[i].height) /\ i <= j

\* _select_format_url
SelectFormatUrl(info) ==
    IF TruthyStr(info.url) THEN info.url
    ELSE IF TallestFormat(info.formats) # 0
    THEN LET fmt == info.formats[TallestFormat(info.formats)]
         IN IF TruthyStr(fmt.url) THEN fmt.url ELSE fmt.manifest_url
    ELSE IF Len(info.formats) > 0
    THEN IF TruthyStr(info.formats[1].url) THEN info.formats[1].url
         ELSE info.formats[1].manifest_url
    ELSE info.webpage_url

\* longest `formats` list _select_format_url is called with
MaxFormats == 2

\* _select_format_url called on its own with any direct URL, formats and
\* page URL
SEL_Call ==
    /\ sel_call.pc = "idle"
    /\ \E url \in {None, Some(""), Some("v.mp4")},
          webpage_url \in {None, Some("page")},
          formats \in SeqsUpTo({Format(h, u, m) :
                                  h \in {None, Some(360), Some(720)},
                                  u \in {None, Some("a.mp4"), Some("b.mp4")},
                                  m \in {None, Some("m.mpd")}}, MaxFormats) :
        LET info == [url |-> url, formats |-> formats,
                     webpage_url |-> webpage_url]
        IN sel_call' = [pc |-> "done", info |-> Some(info),
                        out |-> SelectFormatUrl(info)]
    /\ UNCHANGED <<fc_vars, pf_vars, sc_vars, vf_call, url_call, pg_call, cj_vars>>

\* _collect_tags with the hashtag and the mention pattern
Hashtags(caption) == IF caption = Some("cap #t @m") THEN <<"t">> ELSE <<>>
Mentions(caption) == IF caption = Some("cap #t @m") THEN <<"m">> ELSE <<>>

\* the comment loop of parse_info_payload, from entry i
RECURSIVE ParseComments(_, _, _, _)
ParseComments(raw_comments, i, cs, max_comments) ==
    IF i > Len(raw_comments) THEN cs
    ELSE LET raw == raw_comments[i]
             c == Append(cs,
                         Comment(IF TruthyStr(raw.id) THEN Val(raw.id) ELSE "",
                                 IF TruthyStr(raw.author) THEN Val(raw.author)
                                 ELSE ""))
         IN IF Len(c) >= max_comments THEN c
            ELSE ParseComments(raw_comments, i + 1, c, max_comments)

\* parse_info_payload: (post, comments), or ParsingError
ParseInfoPayload(payload, include_comments, max_comments) ==
    IF ~payload.post.has_id THEN Raised("InstagramParsingError")
    ELSE LET p == payload.post IN
         Returned(
           [post |->
              [shortcode |-> p.id,
               caption |-> p.description,
               username |-> IF TruthyStr(p.uploader_id) THEN Val(p.uploader_id)
                            ELSE IF TruthyStr(p.uploader) THEN Val(p.uploader)
                            ELSE "",
               full_name |-> p.uploader,
               comment_count |-> p.comment_count,
               view_count |-> p.view_count,
               video_url |-> SelectFormatUrl(p),
               audio_title |-> None, audio_artist |-> None,
               audio_id |-> None, audio_url |-> None,
               hashtags |-> Hashtags(p.description),
               mentions |-> Mentions(p.description),
               owner_profile |-> None],
            comments |->
              IF include_comments
              THEN ParseComments(payload.comments, 1, <<>>, max_comments)
              ELSE <<>>])

----------------------------------------------------------------------------
\* URL Canonicalizer (app/instagram/url_utils.py)

\* a URL is its scheme and the non-empty segments of its path
Url(scheme, parts) == [scheme |-> scheme, parts |-> parts]
ValidPathPrefixes == {"p", "reel", "reels", "tv"}
\* variant of the alias table: no alias is rewritten
CanonicalSegmentIdentity(entity) == entity
CanonicalSegment(entity) == IF entity = "reels" THEN "reel" ELSE entity

\* _SHORTCODE_RE.match on the segments of the model
MatchesShortcodeRe(segment) == segment \notin {"", "?", "b@d"}

\* variant of the scheme test: every scheme passes
SchemeAllowedAny(scheme) == TRUE

\* line 24: the scheme test
SchemeAllowed(scheme) == scheme \in {"http", "https"}

\* parse_instagram_url
ParseInstagramUrl(url) ==
    LET hits == {i \in DOMAIN url.parts : Lower(url.parts[i]) \in ValidPathPrefixes}
        entity_idx == IF hits = {} THEN 0
                      ELSE CHOOSE i \in hits : \A j \in hits : i <= j
    IN IF ~SchemeAllowed(url.scheme)
       THEN Raised("InvalidInstagramUrlError")
       ELSE IF Len(url.parts) < 2 THEN Raised("InvalidInstagramUrlError")
       ELSE IF entity_idx = 0 \/ entity_idx + 1 > Len(url.parts)
       THEN Raised("InvalidInstagramUrlError")
       ELSE IF ~MatchesShortcodeRe(url.parts[entity_idx + 1])
       THEN Raised("InvalidInstagramUrlError")
       ELSE LET entity == CanonicalSegment(Lower(url.parts[entity_idx]))
                shortcode == url.parts[entity_idx + 1]
            IN Returned(Some([entity |-> entity, shortcode |-> shortcode,
                              canonical_url |-> Url("https", <<entity, shortcode>>)]))

\* the URLs parse_instagram_url is called with on its own, as urlparse
\* splits them: a scheme and the non-empty segments of the path
MaxParts == 3
Urls ==
    {Url(scheme, parts) :
        scheme \in {"http", "https", "ftp", ""},
        parts \in SeqsUpTo({"p", "reel", "reels", "tv", "REELS", "stories",
                            "Cx1", "b@d"}, MaxParts)}

\* no parse_instagram_url call made yet
IdleUrl == [pc |-> "idle", url |-> Url("", <<>>), out |-> None, again |-> None]

\* parse_instagram_url(url), a pure function: one call is followed
URL_Parse ==
    /\ url_call.pc = "idle"
    /\ \E url \in Urls :
        LET out == ParseInstagramUrl(url) IN
        url_call' = [pc |-> IF out.raised # "" THEN "raised" ELSE "returned",
                     url |-> url, out |-> Some(out), again |-> None]
    /\ UNCHANGED <<fc_vars, pf_vars, sc_vars, vf_call, pg_call, sel_call, cj_vars>>

\* parse_instagram_url(canonical_url) on the canonical_url just returned
URL_Again ==
    /\ url_call.pc = "returned"
    /\ url_call.again = None
    /\ url_call' =
        [url_call EXCEPT !.again =
            Some(ParseInstagramUrl(Val(Val(url_call.out).value).canonical_url))]
    /\ UNCHANGED <<fc_vars, pf_vars, sc_vars, vf_call, pg_call, sel_call, cj_vars>>

NextUrl == URL_Parse \/ URL_Again

----------------------------------------------------------------------------
\* Cookie jars and per-request sessions (_load_cookie_jar, _build_session of
\* comment_fetcher.py, view_fetcher.py and profile_fetcher.py)

MaxSessions == 2

\* the fetchers and the jar object each one loads
FetcherJar == [comment |-> 1, view |-> 2, profile |-> 3]

\* the values of the cookies a jar holds, by name
JarContents(jar) == [n \in DOMAIN jars[jar] |-> cookies[jars[jar][n]]]

\* __init__ of the three fetchers: each loads its own jar from cookies_path;
\* a missing or unreadable file leaves _cookie_source None
InitCookieJars(files) ==
    \E file \in files :
        /\ cookie_file = file
        /\ sessions = <<>>
        /\ IF file = None
           THEN /\ cookie_source = [f \in DOMAIN FetcherJar |-> None]
                /\ jars = EmptyMap
                /\ cookies = EmptyMap
           ELSE LET objects == [j \in 1..3 |->
                                 [n \in DOMAIN Val(file) |->
                                     [jar |-> j, name |-> n, gen |-> 0]]]
                IN /\ cookie_source = [f \in DOMAIN FetcherJar |-> Some(FetcherJar[f])]
                   /\ jars = objects
                   /\ cookies = [o \in UNION {Range(objects[j]) : j \in 1..3} |->
                                    Val(file)[o.name]]

\* variant of _build_session: the session is given the loaded jar itself
BuildSessionShared(f, r) ==
    [jar |-> cookie_source[f], jars |-> jars, cookies |-> cookies]

\* _build_session for the r-th request: None without cookies, else a new jar
\* holding a copy of every cookie of _cookie_source
BuildSession(f, r) ==
    IF cookie_source[f] = None \/ DOMAIN jars[Val(cookie_source[f])] = {}
    THEN [jar |-> None, jars |-> jars, cookies |-> cookies]
    ELSE LET base == jars[Val(cookie_source[f])]
             clone == [n \in DOMAIN base |-> [jar |-> 3 + r, name |-> n, gen |-> 0]]
         IN [jar |-> Some(3 + r),
             jars |-> Put(jars, 3 + r, clone),
             cookies |-> [o \in DOMAIN cookies \cup Range(clone) |->
                            IF o \in DOMAIN cookies THEN cookies[o]
                            ELSE cookies[base[o.name]]]]

\* a fetcher issues a request: send_request(url, headers, session) with the
\* session _build_session returned
CJ_Request ==
    /\ Len(sessions) < MaxSessions
    /\ \E f \in DOMAIN FetcherJar :
        LET built == BuildSession(f, Len(sessions) + 1) IN
        /\ jars' = built.jars
        /\ cookies' = built.cookies
        /\ sessions' = Append(sessions,
                              [fetcher |-> f, jar |-> built.jar, answered |-> FALSE,
                               expected |-> IF built.jar = None THEN EmptyMap
                                            ELSE Val(cookie_file)])
    /\ UNCHANGED <<fc_vars, pf_vars, sc_vars, vf_call, url_call, pg_call, sel_call, cookie_file,
                   cookie_source>>

\* the answer to a request changes the cookies of its session: a cookie is
\* set (a new Cookie object), updated in place, or cleared
CJ_Answer ==
    /\ \E r \in DOMAIN sessions, op \in {"none", "set", "update", "clear"},
          n \in {"sessionid", "csrftoken"}, v \in {"a", "b"} :
        LET session == sessions[r]
            jar == Val(session.jar)
            held == session.jar # None /\ n \in DOMAIN jars[jar]
            fresh == [jar |-> jar, name |-> n, gen |-> 1]
        IN /\ ~session.answered
           /\ op \in {"none", "clear"} => v = "a"
           /\ op = "none" => n = "sessionid"
           /\ IF session.jar = None \/ op = "none" \/ (op = "update" /\ ~held)
              THEN /\ UNCHANGED <<jars, cookies>>
                   /\ sessions' = [sessions EXCEPT ![r].answered = TRUE]
              ELSE /\ jars' =
                        IF op = "set" THEN [jars EXCEPT ![jar] = Put(@, n, fresh)]
                        ELSE IF op = "clear"
                        THEN [jars EXCEPT ![jar] = [x \in DOMAIN @ \ {n} |-> @[x]]]
                        ELSE jars
                   /\ cookies' =
                        IF op = "set" THEN Put(cookies, fresh, v)
                        ELSE IF op = "update"
                        THEN [cookies EXCEPT ![jars[jar][n]] = v]
                        ELSE cookies
                   /\ sessions' =
                        [sessions EXCEPT
                            ![r].answered = TRUE,
                            ![r].expected =
                                IF op = "clear"
                                THEN [x \in DOMAIN @ \ {n} |-> @[x]]
                                ELSE Put(@, n, v)]
    /\ UNCHANGED <<fc_vars, pf_vars, sc_vars, vf_call, url_call, pg_call, sel_call, cookie_file,
                   cookie_source>>

NextCookies == CJ_Request \/ CJ_Answer

----------------------------------------------------------------------------
\* Scraper Orchestrator (app/services/instagram_scraper.py)

ProfileLimit == 30
ScrapeCaller == "c1"

ScrapeUrls ==
    {Url("https", <<"reels", "Cx1">>), Url("ftp", <<"p", "Cx1">>),
     Url("https", <<"stories", "Cx1">>)}

\* faulty variant of TruncateComments: the slice of line 93 left out
TruncateCommentsSkipped(cs, include_comments, max_comments) == cs

\* lines 92-97: the truncation to the cap and the first comment_count merge
TruncateComments(cs, include_comments, max_comments) ==
    IF include_comments /\ Len(cs) > max_comments THEN Take(cs, max_comments) ELSE cs

\* faulty variant of MergeCount: the new count is assigned without max()
MergeCountOverwrite(current, count) == Some(count)

\* lines 96-97 and 120-121: max(post.comment_count or 0, count)
MergeCount(current, count) == Some(Max(OrZero(current), count))

MergeFetchedCount(p, cs, include_comments) ==
    IF include_comments
    THEN [p EXCEPT !.comment_count = MergeCount(p.comment_count, Len(cs))]
    ELSE p

\* lines 110-146: the merge of the metrics details into the post
MergeDetails(p, details) ==
    LET p1 == IF details.view_count # None
              THEN [p EXCEPT !.view_count = details.view_count] ELSE p
        p2 == IF details.comment_count # None
              THEN [p1 EXCEPT !.comment_count =
                        MergeCount(p1.comment_count, Val(details.comment_count))]
              ELSE p1
        p3 == IF TruthyStr(details.caption)
              THEN [p2 EXCEPT !.caption = details.caption] ELSE p2
        p4 == IF details.audio = None
              THEN [p3 EXCEPT !.audio_title = None, !.audio_artist = None,
                              !.audio_id = None, !.audio_url = None]
              ELSE [p3 EXCEPT !.audio_title = Val(details.audio).title,
                              !.audio_artist = Val(details.audio).artist,
                              !.audio_id = Val(details.audio).audio_id,
                              !.audio_url = Val(details.audio).audio_url]
    IN IF details.owner = None THEN p4
       ELSE LET stub == Val(details.owner)
                p5 == IF TruthyStr(stub.username)
                      THEN [p4 EXCEPT !.username = Val(stub.username)] ELSE p4
                p6 == IF TruthyStr(stub.full_name)
                      THEN [p5 EXCEPT !.full_name = stub.full_name] ELSE p5
            IN [p6 EXCEPT !.owner_profile =
                   Some(Profile(p6.username,
                                IF TruthyStr(stub.full_name) THEN stub.full_name
                                ELSE p6.full_name,
                                stub.biography, stub.posts, stub.followers,
                                stub.following, stub.profile_pic_url))]

\* lines 149-155
OwnerUsername(p, stub) ==
    IF p.owner_profile # None /\ Val(p.owner_profile).username # ""
    THEN Some(Val(p.owner_profile).username)
    ELSE IF stub # None /\ TruthyStr(Val(stub).username) THEN Val(stub).username
    ELSE IF p.username # "" THEN Some(p.username)
    ELSE None

\* lines 157-170: usernames of the first commenters, distinct ignoring case
RECURSIVE CommentUsernames(_, _, _, _, _)
CommentUsernames(cs, i, seen, names, limit) ==
    IF i > Len(cs) \/ Len(names) >= limit THEN names
    ELSE LET username == Strip(cs[i].username)
             key == Lower(username)
         IN IF username = "" \/ key \in seen
            THEN CommentUsernames(cs, i + 1, seen, names, limit)
            ELSE CommentUsernames(cs, i + 1, seen \cup {key},
                                  Append(names, username), limit)

\* lines 188-191
AttachProfiles(cs, lookup) ==
    [i \in DOMAIN cs |->
        IF Lower(cs[i].username) \in DOMAIN lookup
        THEN [cs[i] EXCEPT !.profile = Some(lookup[Lower(cs[i].username)])]
        ELSE cs[i]]

\* the services that can be built: Settings, and the optional fetchers
Configurations ==
    [settings : [include_comments : BOOLEAN, max_comments : 0..MaxComments],
     service : [comment_fetcher : BOOLEAN, view_fetcher : BOOLEAN,
                profile_fetcher : BOOLEAN]]

\* get_instagram_service: every fetcher, the default Settings but for the cap
DefaultConfiguration ==
    [settings |-> [include_comments |-> TRUE, max_comments |-> MaxComments],
     service |-> [comment_fetcher |-> TRUE, view_fetcher |-> TRUE,
                  profile_fetcher |-> TRUE]]

InitScrape(configuration) ==
    /\ settings = configuration.settings
    /\ service = configuration.service
    /\ sc_pc = "idle"
    /\ sc_args = [url |-> None, download_video |-> None]
    /\ parsed_url = None
    /\ sc_payload = None
    /\ parsed = None
    /\ post = None
    /\ comments = <<>>
    /\ owner_stub = None
    /\ owner_username = None
    /\ comment_usernames = <<>>
    /\ sc_idx = 0
    /\ profile_lookup = EmptyMap
    /\ destination = None
    /\ sc_result = None
    /\ sc_error = ""
    /\ caught = {}

ScRaise(e) == sc_pc' = "raised" /\ sc_error' = e

\* scrape is called: parse_instagram_url, then the fetch_media_info request
Scrape ==
    /\ sc_pc = "idle"
    /\ \E url \in ScrapeUrls :
        LET got == ParseInstagramUrl(url) IN
        /\ sc_args' = [sc_args EXCEPT !.url = Some(url)]
        /\ IF got.raised # ""
           THEN ScRaise(got.raised) /\ parsed_url' = parsed_url
           ELSE sc_pc' = "extract" /\ parsed_url' = got.value /\ sc_error' = sc_error
    /\ UNCHANGED <<unit_vars, destination, settings, service, caught, sc_payload, parsed, post, comments, owner_stub,
                   owner_username, comment_usernames, sc_idx, profile_lookup,
                   sc_result, fc_vars, pf_vars>>

\* fetch_media_info returns a payload or raises InstagramRequestError
Extract ==
    /\ sc_pc = "extract"
    /\ \/ ScRaise("InstagramRequestError") /\ sc_payload' = sc_payload
       \/ \E payload \in Payloads :
            sc_pc' = "parse" /\ sc_payload' = Some(payload) /\ sc_error' = sc_error
    /\ UNCHANGED <<unit_vars, destination, settings, service, caught, sc_args, parsed_url, parsed, post, comments,
                   owner_stub, owner_username, comment_usernames, sc_idx,
                   profile_lookup, sc_result, fc_vars, pf_vars>>

\* variant of the video check: a Post without a video URL passes
HasVideoAlways(p) == TRUE

\* line 66: the Post has a video URL
HasVideo(p) == TruthyStr(p.video_url)

\* lines 60-67: parse_info_payload and the video check
Parse ==
    /\ sc_pc = "parse"
    /\ LET got == ParseInfoPayload(Val(sc_payload), settings.include_comments,
                                   settings.max_comments)
       IN IF got.raised # ""
          THEN ScRaise(got.raised) /\ UNCHANGED <<parsed, post, comments>>
          ELSE IF ~HasVideo(got.value.post)
          THEN ScRaise("InstagramParsingError") /\ UNCHANGED <<parsed, post, comments>>
          ELSE /\ sc_pc' = "comments"
               /\ sc_error' = sc_error
               /\ parsed' = Some(got.value)
               /\ post' = Some(got.value.post)
               /\ comments' = got.value.comments
    /\ sc_payload' = None
    /\ UNCHANGED <<unit_vars, destination, settings, service, caught, sc_args, parsed_url, owner_stub,
                   owner_username, comment_usernames, sc_idx, profile_lookup,
                   sc_result, fc_vars, pf_vars>>

\* variant of the comment stage: fetch_comments is started and scrape goes on to
\* the metrics stage without awaiting it
CommentsStageNotAwaited ==
    /\ sc_pc = "comments"
    /\ FetchCommentsCall(Val(post).shortcode, settings.max_comments, <<>>)
    /\ sc_pc' = "metrics"
    /\ UNCHANGED <<unit_vars, destination, settings, service, caught, sc_args, parsed_url, sc_payload, parsed,
                   post, comments, owner_stub, owner_username, comment_usernames, sc_idx,
                   profile_lookup, sc_result, sc_error, pf_vars>>

\* lines 69-80 (the call of fetch_comments), or lines 92-97 when it is skipped
CommentsStage ==
    /\ sc_pc = "comments"
    /\ IF /\ settings.include_comments
          /\ service.comment_fetcher
          /\ Len(comments) < settings.max_comments
       THEN /\ FetchCommentsCall(
                 Val(post).shortcode, settings.max_comments,
                 SelectSeq([i \in DOMAIN comments |-> comments[i].id],
                           LAMBDA id : id # ""))
            /\ sc_pc' = "await_comments"
            /\ UNCHANGED <<post, comments>>
       ELSE /\ comments' = TruncateComments(comments, settings.include_comments,
                                            settings.max_comments)
            /\ post' = Some(MergeFetchedCount(Val(post), comments',
                                              settings.include_comments))
            /\ sc_pc' = "metrics"
            /\ UNCHANGED fc_vars
    /\ UNCHANGED <<unit_vars, destination, settings, service, caught, sc_args, parsed_url, sc_payload, parsed,
                   owner_stub, owner_username, comment_usernames, sc_idx,
                   profile_lookup, sc_result, sc_error, pf_vars>>

\* lines 81-97: fetch_comments returned or raised InstagramCommentFetchError
CommentsReturn ==
    /\ sc_pc = "await_comments"
    /\ fc_pc \in {"returned", "raised"}
    /\ LET extended == IF fc_pc = "returned" THEN comments \o fc_comments
                       ELSE comments
       IN /\ comments' = TruncateComments(extended, settings.include_comments,
                                          settings.max_comments)
          /\ post' = Some(MergeFetchedCount(Val(post), comments',
                                            settings.include_comments))
    /\ sc_pc' = "metrics"
    /\ caught' = IF fc_pc = "raised" THEN caught \cup {"comments"} ELSE caught
    /\ FetchCommentsDone
    /\ UNCHANGED <<unit_vars, destination, settings, service, sc_args, parsed_url, sc_payload, parsed,
                   owner_stub, owner_username, comment_usernames, sc_idx,
                   profile_lookup, sc_result, sc_error, pf_vars>>

\* line 103: except InstagramViewFetchError
ViewErrorCaught(e) == e = "ViewFetchError"

\* lines 99-102: the metrics request is issued, unless there is no fetcher
\* or fetch_media_details raises before it
MetricsStage ==
    /\ sc_pc = "metrics"
    /\ LET early == FetchInfoPayloadPrecheck(Val(post).shortcode) IN
       IF ~service.view_fetcher
       THEN sc_pc' = "profiles" /\ caught' = caught
       ELSE IF early.raised = ""
       THEN sc_pc' = "await_metrics" /\ caught' = caught
       ELSE /\ sc_pc' = "profiles"
            /\ caught' = IF ViewErrorCaught(early.raised)
                          THEN caught \cup {"metrics"} ELSE caught
    /\ UNCHANGED <<unit_vars, destination, settings, service, sc_args, parsed_url, sc_payload, parsed, post,
                   comments, owner_stub, owner_username, comment_usernames, sc_idx,
                   profile_lookup, sc_result, sc_error, fc_vars, pf_vars>>

\* faulty variant of MetricsOutcome: the except clause goes on to the merge
\* with empty details, and view_count is assigned without the None test
MetricsOutcomeMergesEmpty(p, got) ==
    IF ViewErrorCaught(got.raised)
    THEN [raised |-> "", post |-> [p EXCEPT !.view_count = None],
          owner_stub |-> None]
    ELSE IF got.raised # ""
    THEN [raised |-> got.raised, post |-> p, owner_stub |-> None]
    ELSE [raised |-> "", post |-> MergeDetails(p, got.value),
          owner_stub |-> got.value.owner]

\* the try statement of lines 101-146 on the outcome of fetch_media_details
MetricsOutcome(p, got) ==
    IF ViewErrorCaught(got.raised)
    THEN [raised |-> "", post |-> p, owner_stub |-> None]
    ELSE IF got.raised # ""
    THEN [raised |-> got.raised, post |-> p, owner_stub |-> None]
    ELSE [raised |-> "", post |-> MergeDetails(p, got.value),
          owner_stub |-> got.value.owner]

\* lines 102-146: the answer of the metrics request arrives
MetricsReturn ==
    /\ sc_pc = "await_metrics"
    /\ \E resp \in InfoPayloadResponses :
        LET fetched == FetchInfoPayload(resp)
            details == IF fetched.raised # "" THEN fetched
                       ELSE FetchMediaDetails(fetched.value)
            out == MetricsOutcome(Val(post), details)
        IN IF out.raised # ""
           THEN ScRaise(out.raised) /\ UNCHANGED <<post, owner_stub, caught>>
           ELSE /\ sc_pc' = "profiles"
                /\ sc_error' = sc_error
                /\ post' = Some(out.post)
                /\ owner_stub' = out.owner_stub
                /\ caught' = IF ViewErrorCaught(details.raised)
                              THEN caught \cup {"metrics"} ELSE caught
    /\ UNCHANGED <<unit_vars, destination, settings, service, sc_args, parsed_url, sc_payload, parsed,
                   comments, owner_username, comment_usernames, sc_idx,
                   profile_lookup, sc_result, fc_vars, pf_vars>>

\* lines 147-170: the owner's username and the usernames to resolve
ProfilesStage ==
    /\ sc_pc = "profiles"
    /\ IF service.profile_fetcher
       THEN /\ owner_username' = OwnerUsername(Val(post), owner_stub)
            /\ comment_usernames' =
                 CommentUsernames(comments, 1, {}, <<>>,
                     Min(Min(Len(comments), settings.max_comments), ProfileLimit))
            /\ sc_idx' = 1
            /\ sc_pc' = "resolve"
       ELSE /\ sc_pc' = "download"
            /\ UNCHANGED <<owner_username, comment_usernames, sc_idx>>
    /\ UNCHANGED <<unit_vars, destination, settings, service, caught, sc_args, parsed_url, sc_payload, parsed, post,
                   comments, owner_stub, profile_lookup, sc_result, sc_error,
                   fc_vars, pf_vars>>

\* lines 172-177: the next username of the loop is handed to fetch_profile
ResolveCommenter ==
    /\ sc_pc = "resolve"
    /\ sc_idx <= Len(comment_usernames)
    /\ IF Lower(comment_usernames[sc_idx]) \in DOMAIN profile_lookup
       THEN sc_idx' = sc_idx + 1 /\ sc_pc' = sc_pc /\ UNCHANGED pf_vars
       ELSE /\ FetchProfileCall(ScrapeCaller, comment_usernames[sc_idx])
            /\ sc_pc' = "await_profile"
            /\ sc_idx' = sc_idx
    /\ UNCHANGED <<unit_vars, destination, settings, service, caught, sc_args, parsed_url, sc_payload, parsed, post,
                   comments, owner_stub, owner_username, comment_usernames,
                   profile_lookup, sc_result, sc_error, fc_vars>>

\* faulty variant of ProfileErrorCaught: the except clauses left out
ProfileErrorCaughtNever(e) == FALSE

\* the exceptions of fetch_profile that lines 178 and 199 catch
ProfileErrorCaught(e) == e = "ProfileFetchError"

\* lines 177-186: fetch_profile returned or raised
CommenterReturn ==
    /\ sc_pc = "await_profile"
    /\ pf_call[ScrapeCaller].pc \in {"returned", "raised"}
    /\ LET call == pf_call[ScrapeCaller] IN
       IF call.pc = "raised" /\ ~ProfileErrorCaught(call.error)
       THEN ScRaise(call.error) /\ UNCHANGED <<sc_idx, profile_lookup, caught>>
       ELSE /\ sc_pc' = "resolve"
            /\ sc_error' = sc_error
            /\ sc_idx' = sc_idx + 1
            /\ caught' = IF call.pc = "raised" THEN caught \cup {"profile"}
                          ELSE caught
            /\ profile_lookup' =
                 IF call.pc = "returned" /\ call.result # None
                 THEN Put(profile_lookup, Lower(comment_usernames[sc_idx]),
                          Val(call.result))
                 ELSE profile_lookup
    /\ pf_call' = [pf_call EXCEPT ![ScrapeCaller] = IdleCall]
    /\ UNCHANGED <<unit_vars, destination, settings, service, sc_args, parsed_url, sc_payload, parsed, post,
                   comments, owner_stub, owner_username, comment_usernames,
                   sc_result, fc_vars, profile_cache, id_cache, pf_first>>

\* lines 208-209
SetOwnerProfile(p, owner_profile) ==
    IF owner_profile # None THEN [p EXCEPT !.owner_profile = owner_profile] ELSE p

\* variant of the owner lookup: fetch_profile is called for the owner without
\* consulting profile_lookup (line 196 left out)
OwnerStageAlwaysLooksUp ==
    /\ sc_pc = "resolve"
    /\ sc_idx > Len(comment_usernames)
    /\ comments' = AttachProfiles(comments, profile_lookup)
    /\ IF owner_username = None
       THEN sc_pc' = "download" /\ UNCHANGED <<post, pf_vars>>
       ELSE /\ FetchProfileCall(ScrapeCaller, Val(owner_username))
            /\ sc_pc' = "await_owner"
            /\ post' = post
    /\ UNCHANGED <<unit_vars, destination, settings, service, caught, sc_args, parsed_url, sc_payload, parsed,
                   owner_stub, owner_username, comment_usernames, sc_idx,
                   profile_lookup, sc_result, sc_error, fc_vars>>

\* lines 188-198: the loop is over; profiles are attached to the comments and
\* the owner is looked up, through fetch_profile when not yet resolved
OwnerStage ==
    /\ sc_pc = "resolve"
    /\ sc_idx > Len(comment_usernames)
    /\ comments' = AttachProfiles(comments, profile_lookup)
    /\ IF owner_username = None
       THEN sc_pc' = "download" /\ UNCHANGED <<post, pf_vars>>
       ELSE IF Lower(Val(owner_username)) \in DOMAIN profile_lookup
       THEN /\ post' = Some(SetOwnerProfile(Val(post),
                         Some(profile_lookup[Lower(Val(owner_username))])))
            /\ sc_pc' = "download"
            /\ UNCHANGED pf_vars
       ELSE /\ FetchProfileCall(ScrapeCaller, Val(owner_username))
            /\ sc_pc' = "await_owner"
            /\ post' = post
    /\ UNCHANGED <<unit_vars, destination, settings, service, caught, sc_args, parsed_url, sc_payload, parsed,
                   owner_stub, owner_username, comment_usernames, sc_idx,
                   profile_lookup, sc_result, sc_error, fc_vars>>

\* lines 198-209: fetch_profile of the owner returned or raised
OwnerReturn ==
    /\ sc_pc = "await_owner"
    /\ pf_call[ScrapeCaller].pc \in {"returned", "raised"}
    /\ LET call == pf_call[ScrapeCaller] IN
       IF call.pc = "raised" /\ ~ProfileErrorCaught(call.error)
       THEN ScRaise(call.error) /\ UNCHANGED <<post, profile_lookup, caught>>
       ELSE /\ sc_pc' = "download"
            /\ sc_error' = sc_error
            /\ caught' = IF call.pc = "raised" THEN caught \cup {"owner"}
                          ELSE caught
            /\ profile_lookup' =
                 IF call.pc = "returned" /\ call.result # None
                 THEN Put(profile_lookup, Lower(Val(owner_username)),
                          Val(call.result))
                 ELSE profile_lookup
            /\ post' = IF call.pc = "returned"
                       THEN Some(SetOwnerProfile(Val(post), call.result))
                       ELSE post
    /\ pf_call' = [pf_call EXCEPT ![ScrapeCaller] = IdleCall]
    /\ UNCHANGED <<unit_vars, destination, settings, service, sc_args, parsed_url, sc_payload, parsed,
                   comments, owner_stub, owner_username, comment_usernames, sc_idx,
                   sc_result, fc_vars, profile_cache, id_cache, pf_first>>

\* lines 220-228
ScrapedMedia(p, cs, video_path, include_comments) ==
    LET normalized_comments == IF include_comments THEN cs ELSE <<>>
    IN [post |-> p, comments |-> normalized_comments, video_path |-> video_path,
        fetched_comment_count |-> Len(normalized_comments)]

\* variant of build_video_path: one file name for every shortcode
BuildVideoPathFixed(shortcode) == <<"instagram", "video", "mp4">>

\* MediaStorage.build_video_path
BuildVideoPath(shortcode) == <<"instagram", shortcode, "mp4">>

\* lines 211-215: the download is issued, or the result returned without it
\* (download_video, an argument of scrape that nothing reads before line 212,
\* is drawn here)
DownloadStage ==
    /\ sc_pc = "download"
    /\ \E download_video \in BOOLEAN :
        /\ sc_args' = [sc_args EXCEPT !.download_video = Some(download_video)]
        /\ IF download_video
           THEN /\ sc_pc' = "await_download"
                /\ destination' = Some(BuildVideoPath(Val(post).shortcode))
                /\ sc_result' = sc_result
           ELSE /\ sc_pc' = "done"
                /\ destination' = destination
                /\ sc_result' = Some(ScrapedMedia(Val(post), comments, None,
                                                  settings.include_comments))
    /\ UNCHANGED <<unit_vars, settings, service, caught, parsed_url, sc_payload, parsed, post,
                   comments, owner_stub, owner_username, comment_usernames, sc_idx,
                   profile_lookup, sc_error, fc_vars, pf_vars>>

\* lines 215-228: download_media returned or raised MediaDownloadError
DownloadReturn ==
    /\ sc_pc = "await_download"
    /\ \/ ScRaise("MediaDownloadError") /\ sc_result' = sc_result
       \/ /\ sc_pc' = "done"
          /\ sc_error' = sc_error
          /\ sc_result' = Some(ScrapedMedia(Val(post), comments, destination,
                                             settings.include_comments))
    /\ UNCHANGED <<unit_vars, destination, settings, service, caught, sc_args, parsed_url, sc_payload, parsed, post,
                   comments, owner_stub, owner_username, comment_usernames, sc_idx,
                   profile_lookup, fc_vars, pf_vars>>

NextScrape ==
    \/ Scrape \/ Extract \/ Parse
    \/ CommentsStage \/ FC_Page \/ CommentsReturn
    \/ MetricsStage \/ MetricsReturn
    \/ ProfilesStage \/ ResolveCommenter \/ CommenterReturn
    \/ OwnerStage \/ OwnerReturn
    \/ PF_Search \/ PF_Info \/ PF_Wake
    \/ DownloadStage \/ DownloadReturn

----------------------------------------------------------------------------
\* Specifications

InitUnits ==
    /\ vf_call = IdleVf /\ url_call = IdleUrl
    /\ pg_call = [pc |-> "loop", requests |-> 0, mode |-> "api_v1",
                  cursor |-> None, cursor_kind |-> None, page |-> None,
                  request |-> Some(PageRequest("api_v1", None, None))]
    /\ sel_call = [pc |-> "idle", info |-> None, out |-> None]
    /\ InitCookieJars({None})

Init == InitFC /\ InitPF /\ InitUnits /\ \E c \in Configurations : InitScrape(c)

InitFetchers == InitFC /\ InitPF /\ InitUnits /\ InitScrape(DefaultConfiguration)

\* one scrape on a freshly built service, against any upstream
Spec == Init /\ [][NextScrape]_vars

\* fetch_comments called with any arguments against any upstream
SpecFC == InitFetchers /\ [][NextFC]_vars

\* fetch_profile called by one caller after another on one instance
SpecPF == InitFetchers /\ [][NextPF]_vars

\* the scrape up to its result on a service whose only fetcher is the
\* comment fetcher, with the cap at the largest limit
NextComments ==
    \/ Scrape \/ Extract \/ Parse
    \/ CommentsStage \/ FC_Page \/ CommentsReturn
    \/ MetricsStage \/ ProfilesStage
    \/ DownloadStage \/ DownloadReturn
InitComments ==
    /\ InitFC /\ InitPF /\ InitUnits
    /\ InitScrape([settings |-> [include_comments |-> TRUE,
                                 max_comments |-> MaxLimit],
                   service |-> [comment_fetcher |-> TRUE, view_fetcher |-> FALSE,
                               profile_fetcher |-> FALSE]])
SpecComments == InitComments /\ [][NextComments]_vars

\* fetch_profile called by concurrent scrapes on the shared instance
SpecPFC == InitFetchers /\ [][NextPFC]_vars

\* fetch_media_details called on its own
SpecVF == InitFetchers /\ [][NextVF]_vars

\* parse_instagram_url called on its own, then on its own canonical_url
SpecUrl == InitFetchers /\ [][NextUrl]_vars

\* requests of the three fetchers and their answers, in any interleaving,
\* for any cookies file
InitCookies ==
    /\ InitFC /\ InitPF /\ InitScrape(DefaultConfiguration)
    /\ vf_call = IdleVf /\ url_call = IdleUrl
    /\ pg_call = [pc |-> "loop", requests |-> 0, mode |-> "api_v1",
                  cursor |-> None, cursor_kind |-> None, page |-> None,
                  request |-> Some(PageRequest("api_v1", None, None))]
    /\ sel_call = [pc |-> "idle", info |-> None, out |-> None]
    /\ InitCookieJars({None, Some(EmptyMap),
                       Some([n \in {"sessionid"} |-> "a"]),
                       Some([n \in {"sessionid", "csrftoken"} |-> "a"])})
SpecCookies == InitCookies /\ [][NextCookies]_vars

\* _select_format_url called once with any payload
SpecSelect == InitFetchers /\ [][SEL_Call]_vars

\* the pagination of one fetch_comments call against any upstream
SpecPaging == InitFetchers /\ [][PG_Page]_vars

----------------------------------------------------------------------------
\* Properties of scrape (under Spec)

\* the enrichment-local and the terminal exception types
EnrichmentErrors == {"CommentFetchError", "ViewFetchError", "ProfileFetchError"}
TerminalErrors ==
    {"InvalidInstagramUrlError", "InstagramRequestError", "InstagramParsingError",
     "MediaDownloadError"}

C2_OnlyTerminalErrors ==
    sc_pc = "raised" => sc_error \in TerminalErrors

\* post.comment_count or 0
CountOf(p) == OrZero(p.comment_count)

\* C3: no step of scrape lowers the post's comment_count, and the count of
\* the returned post is at least the count parse_info_payload produced
\* (an absent count counting as 0).
C3_CommentCountNeverLowered ==
    [][/\ (post # None /\ post' # None) =>
            CountOf(Val(post')) >= CountOf(Val(post))
       /\ sc_result' # None =>
            CountOf(Val(sc_result').post) >= CountOf(Val(parsed').post)]_vars

\* a result whose comment list is shorter than the parsed count: line 97
\* merged the smaller number and the parsed count was kept
C3_Witness ==
    /\ sc_result # None
    /\ settings.include_comments
    /\ Len(Val(sc_result).comments) < CountOf(Val(parsed).post)
    /\ CountOf(Val(sc_result).post) = CountOf(Val(parsed).post)

\* C4: the comment list of a returned result has at most max_comments
\* entries.
C4_CommentsWithinCap ==
    sc_result # None => Len(Val(sc_result).comments) <= settings.max_comments

\* a result returned although the parser gave more comments than the cap
C4_Witness ==
    /\ sc_result # None
    /\ Len(Val(parsed).comments) > settings.max_comments
    /\ Len(Val(sc_result).comments) = settings.max_comments

\* C5: the comment ids of a returned result are pairwise distinct.
C5_CommentIdsDistinct ==
    sc_result # None =>
        LET cs == Val(sc_result).comments
        IN \A i, j \in DOMAIN cs : i # j => cs[i].id # cs[j].id

\* C7: a step in which the metrics fetcher raises ViewFetchError leaves the
\* whole Post as it was.
C7_ViewFetchErrorLeavesPost ==
    [][("metrics" \in caught' /\ "metrics" \notin caught) => post' = post]_vars

\* the metrics stage is over, its ViewFetchError caught, for a post the
\* parser had given a view count and a caption
C7_Witness ==
    /\ sc_pc = "profiles"
    /\ "metrics" \in caught
    /\ Val(post).view_count # None
    /\ Val(post).caption # None

\* the Optional fields of InstagramPost and of InstagramProfile
PostFields ==
    {"caption", "full_name", "comment_count", "view_count", "video_url",
     "audio_title", "audio_artist", "audio_id", "audio_url", "owner_profile"}
ProfileFields ==
    {"full_name", "biography", "posts", "followers", "following",
     "profile_pic_url"}

\* C8: no step of scrape replaces a non-null field of the Post, or a non-null
\* attribute of its owner_profile, by an absent value.
C8_NoFieldRegresses ==
    [][(post # None /\ post' # None) =>
        /\ \A f \in PostFields : Val(post)[f] # None => Val(post')[f] # None
        /\ Val(post).owner_profile # None =>
            \A f \in ProfileFields :
                Val(Val(post).owner_profile)[f] # None =>
                    Val(Val(post').owner_profile)[f] # None]_vars

----------------------------------------------------------------------------
\* Properties of fetch_comments (under SpecFC)

\* the distinct non-empty ids of existing_ids
ExistingIds == {id \in Range(fc_args.existing_ids) : id # ""}

\* C6 as stated: in the calls whose existing_ids is not already longer than
\* limit, len(existing_ids) + len(returned) does not exceed limit.
C6_ExistingPlusReturnedWithinLimit ==
    (fc_pc = "returned" /\ Len(fc_args.existing_ids) <= fc_args.limit) =>
        Len(fc_args.existing_ids) + Len(fc_comments) <= fc_args.limit

\* C6 (amended): the collected comments carry no id of existing_ids and no id
\* twice; their number never exceeds limit minus the number of distinct
\* non-empty ids of existing_ids (0 when that is negative); and a further
\* page is requested only while that sum is below limit.
C6_ReturnedWithinLimit ==
    /\ \A i \in DOMAIN fc_comments :
            fc_comments[i].id \notin Range(fc_args.existing_ids)
    /\ \A i, j \in DOMAIN fc_comments :
            i # j => fc_comments[i].id # fc_comments[j].id
    /\ Len(fc_comments) <= Max(0, fc_args.limit - Cardinality(ExistingIds))
    /\ fc_pc = "loop" =>
            Cardinality(ExistingIds) + Len(fc_comments) < fc_args.limit

\* a call given a duplicated id returned comments up to the limit while the
\* upstream still offered a cursor
C6_Witness ==
    /\ fc_pc = "returned"
    /\ Cardinality(ExistingIds) < Len(fc_args.existing_ids)
    /\ Cardinality(ExistingIds) > 0
    /\ Len(fc_comments) > 0
    /\ Cardinality(ExistingIds) + Len(fc_comments) = fc_args.limit
    /\ fc_page.cursor # None

----------------------------------------------------------------------------
\* Properties of fetch_profile (under SpecPF)

\* C9: a call for a username an earlier call has returned for, whatever the
\* casing, receives no answer of the upstream (it issues no request) and
\* returns the value the first call returned.
C9_SecondLookupServedFromCache ==
    \A c \in Callers :
        pf_call[c].prior # None =>
            /\ pf_call[c].pc = "returned"
            /\ pf_call[c].requests = 0
            /\ pf_call[c].result = Val(pf_call[c].prior).value

\* a call that returned the profile an earlier call, spelled differently,
\* had fetched
C9_Witness ==
    \E c \in Callers :
        /\ pf_call[c].pc = "returned"
        /\ pf_call[c].prior # None
        /\ Val(pf_call[c].prior).username # pf_call[c].username
        /\ Val(pf_call[c].prior).requests > 0
        /\ pf_call[c].result # None

\* C10: a call whose search or user-info request was answered with an error
\* status, or whose search matched no user, does not raise: it returns
\* absence and the cache holds absence under the lowercased username; a later
\* call for that username issues no request and returns absence.
C10_ErrorStatusIsCachedAbsence ==
    \A c \in Callers :
        /\ pf_call[c].cause # "" =>
            /\ pf_call[c].pc \in {"sleep", "returned"}
            /\ pf_call[c].result = None
            /\ Lower(pf_call[c].username) \in DOMAIN profile_cache
            /\ profile_cache[Lower(pf_call[c].username)] = None
        /\ (pf_call[c].prior # None /\ Val(pf_call[c].prior).cause # "") =>
            /\ pf_call[c].pc = "returned"
            /\ pf_call[c].requests = 0
            /\ pf_call[c].result = None

\* a later call for a username whose first lookup met an error status
C10_Witness ==
    \E c \in Callers :
        /\ pf_call[c].pc = "returned"
        /\ pf_call[c].prior # None
        /\ Val(pf_call[c].prior).cause = "status"
        /\ pf_call[c].requests = 0

\* C11 as stated: an answer whose status is outside 200..299 makes
\* fetch_media_details return the empty details without raising, and
\* ViewFetchError is raised only for request-construction, network or decode
\* failures.
C11_NonSuccessStatusYieldsEmpty ==
    /\ (vf_call.answer # None /\ Val(vf_call.answer).kind = "http"
        /\ Val(vf_call.answer).status \notin 200..299) =>
        /\ vf_call.pc = "returned"
        /\ vf_call.details =
            Some([view_count |-> None, comment_count |-> None, caption |-> None,
                  audio |-> None, owner |-> None])
    /\ (vf_call.pc = "raised" /\ vf_call.error = "ViewFetchError") =>
        \/ vf_call.answer = None
        \/ Val(vf_call.answer).kind = "net_error"
        \/ Val(vf_call.answer).kind = "http" /\ Val(vf_call.answer).body.kind = "bad_json"

\* C11: an answer with a status of 400 or above makes fetch_media_details
\* raise ViewFetchError and yield no details; ViewFetchError is raised only
\* when the request could not be built (answer absent), the network failed,
\* the status was 400 or above, or the body was not JSON.
C11_ErrorStatusRaisesViewFetchError ==
    /\ (vf_call.answer # None /\ Val(vf_call.answer).kind = "http"
        /\ Val(vf_call.answer).status >= 400) =>
        /\ vf_call.pc = "raised"
        /\ vf_call.error = "ViewFetchError"
        /\ vf_call.details = None
    /\ (vf_call.pc = "raised" /\ vf_call.error = "ViewFetchError") =>
        \/ vf_call.answer = None
        \/ Val(vf_call.answer).kind = "net_error"
        \/ Val(vf_call.answer).kind = "http" /\ Val(vf_call.answer).status >= 400
        \/ Val(vf_call.answer).kind = "http" /\ Val(vf_call.answer).body.kind = "bad_json"

\* a call answered 404 with a well-formed body has raised ViewFetchError
C11_Witness ==
    /\ vf_call.pc = "raised"
    /\ vf_call.error = "ViewFetchError"
    /\ vf_call.answer # None
    /\ Val(vf_call.answer).kind = "http"
    /\ Val(vf_call.answer).status = 404
    /\ Val(vf_call.answer).body.kind = "object"

\* C12: an accepted URL whose first recognised segment is one of p, reel,
\* reels, tv has that token as entity, reels becoming reel; and parsing the
\* returned canonical_url gives the same entity, shortcode and canonical_url.
C12_AliasNormalisedAndIdempotent ==
    url_call.pc = "returned" =>
        LET parts == url_call.url.parts
            r == Val(Val(url_call.out).value)
            first == CHOOSE i \in DOMAIN parts :
                        /\ Lower(parts[i]) \in {"p", "reel", "reels", "tv"}
                        /\ \A j \in 1..(i - 1) :
                            Lower(parts[j]) \notin {"p", "reel", "reels", "tv"}
        IN /\ parts[first] \in {"p", "reel", "tv"} => r.entity = parts[first]
           /\ parts[first] = "reels" => r.entity = "reel"
           /\ url_call.again # None =>
                /\ Val(url_call.again).raised = ""
                /\ Val(Val(url_call.again).value) = r

\* a reels URL was accepted and its canonical_url parsed again
C12_Witness ==
    /\ url_call.pc = "returned"
    /\ url_call.url.parts = <<"stories", "reels", "Cx1">>
    /\ url_call.again # None

\* C13: parse_instagram_url raises InvalidInstagramUrlError exactly when the
\* scheme is not http/https, or no segment is an entity token, or the segment
\* after the first entity token is missing or is no shortcode; otherwise it
\* returns an entity among p, reel, tv and a shortcode matching the pattern.
C13_FailsExactlyOnMalformedUrl ==
    url_call.pc # "idle" =>
        LET parts == url_call.url.parts
            tokens == {i \in DOMAIN parts :
                        Lower(parts[i]) \in {"p", "reel", "reels", "tv"}}
            first == CHOOSE i \in tokens : \A j \in tokens : i <= j
            malformed ==
                \/ url_call.url.scheme \notin {"http", "https"}
                \/ tokens = {}
                \/ first + 1 \notin DOMAIN parts
                \/ parts[first + 1] \in {"", "?", "b@d"}
            out == Val(url_call.out)
        IN /\ malformed <=> out.raised = "InvalidInstagramUrlError"
           /\ ~malformed <=> out.raised = ""
           /\ ~malformed =>
                /\ Val(out.value).entity \in {"p", "reel", "tv"}
                /\ Val(out.value).shortcode \notin {"", "?", "b@d"}
                /\ Val(out.value).shortcode = parts[first + 1]

\* a URL with a wrong scheme and an otherwise well-formed path was refused
C13_Witness ==
    /\ url_call.pc = "raised"
    /\ url_call.url = Url("ftp", <<"p", "Cx1">>)

\* C14: the scrape raises InvalidInstagramUrlError only at the URL step,
\* InstagramRequestError only at the extractor step and InstagramParsingError
\* only at the parser step; up to and including these steps no Post is held,
\* no fetcher has been called and no download issued; the parser step is left
\* for the comment stage only with a payload that has the media identifier and
\* a Post that has a video URL; and a scrape that raised takes no further step.
C14_TerminalFailureStopsPipeline ==
    [][/\ sc_pc # "raised"
       /\ sc_pc' \in {"idle", "extract", "parse", "raised"} /\ sc_pc' # sc_pc =>
            /\ sc_pc = "idle" => sc_pc' \in {"extract", "raised"}
            /\ sc_pc = "extract" => sc_pc' \in {"parse", "raised"}
       /\ (sc_pc' = "raised" /\ sc_error' = "InvalidInstagramUrlError") =>
            sc_pc = "idle"
       /\ (sc_pc' = "raised" /\ sc_error' = "InstagramRequestError") =>
            sc_pc = "extract"
       /\ (sc_pc' = "raised" /\ sc_error' = "InstagramParsingError") =>
            sc_pc = "parse"
       /\ (sc_pc' \in {"idle", "extract", "parse"}
           \/ (sc_pc' = "raised" /\ sc_pc \in {"idle", "extract", "parse"})) =>
            /\ post' = None /\ sc_result' = None
            /\ fc_pc' = "idle" /\ fc_requests' = 0
            /\ \A c \in Callers : pf_call'[c].pc = "idle"
            /\ profile_cache' = EmptyMap /\ id_cache' = EmptyMap
            /\ caught' = {}
            /\ sc_args'.download_video = None
       /\ (sc_pc = "parse" /\ sc_pc' # "raised") =>
            /\ sc_pc' = "comments"
            /\ Val(sc_payload).post.has_id
            /\ TruthyStr(Val(post').video_url)
      ]_vars

\* a scrape on a service with every fetcher raised InstagramParsingError
C14_Witness ==
    /\ sc_pc = "raised"
    /\ sc_error = "InstagramParsingError"
    /\ service.comment_fetcher /\ service.view_fetcher /\ service.profile_fetcher
    /\ settings.include_comments /\ settings.max_comments > 0

C16_LoadedJarNeverModified ==
    /\ \A f \in DOMAIN FetcherJar :
        cookie_source[f] # None =>
            /\ Val(cookie_source[f]) = FetcherJar[f]
            /\ JarContents(FetcherJar[f]) = Val(cookie_file)
    /\ \A r \in DOMAIN sessions :
        sessions[r].jar # None =>
            /\ Val(sessions[r].jar) \notin Range(FetcherJar)
            /\ JarContents(Val(sessions[r].jar)) = sessions[r].expected
            /\ ~sessions[r].answered => sessions[r].expected = Val(cookie_file)
            /\ \A j \in DOMAIN jars :
                j # Val(sessions[r].jar) =>
                    Range(jars[j]) \cap Range(jars[Val(sessions[r].jar)]) = {}
            /\ \A q \in DOMAIN sessions :
                q # r => sessions[q].jar # sessions[r].jar

\* two requests of one fetcher overlap: the answer to the first has changed
\* its session's cookies while the second, built meanwhile, is unanswered
C16_Witness ==
    \E r, q \in DOMAIN sessions :
        /\ r # q
        /\ sessions[r].fetcher = sessions[q].fetcher
        /\ sessions[r].jar # None /\ sessions[q].jar # None
        /\ sessions[r].answered /\ ~sessions[q].answered
        /\ sessions[r].expected # Val(cookie_file)

\* C17: two callers are never both inside the external lookup (the search or
\* the user-info request) of the same lowercased username: the second one
\* finds the cache filled or waits for the first.
C17_OneLookupPerUsername ==
    \A c, d \in Callers :
        (/\ c # d
         /\ pf_call[c].pc \in {"search", "info"}
         /\ pf_call[d].pc \in {"search", "info"})
        => Lower(pf_call[c].username) # Lower(pf_call[d].username)

\* C18: in a returned result of a service with a profile resolver, when the
\* owner's profile was resolved, every comment whose username equals the
\* owner's username ignoring case carries a profile, the one that is
\* post.owner_profile.
C18_OwnerCommentsShareOwnerProfile ==
    (/\ sc_result # None
     /\ service.profile_fetcher
     /\ owner_username # None
     /\ Lower(Val(owner_username)) \in DOMAIN profile_lookup)
    => \A i \in DOMAIN Val(sc_result).comments :
        Lower(Val(sc_result).comments[i].username) = Lower(Val(owner_username))
        => /\ Val(sc_result).comments[i].profile # None
           /\ Val(sc_result).comments[i].profile = Val(sc_result).post.owner_profile

\* C19: when a call that requested pages has returned after a page of
\* comments, then len(existing_ids) + len(comments) has reached limit, or the
\* page gave no next cursor, or its has_more flag was false.
C19_LoopStopsOnlyForThreeReasons ==
    (/\ fc_pc = "returned"
     /\ fc_answer # None
     /\ Val(fc_answer).body = "object")
    => \/ Len(fc_args.existing_ids) + Len(fc_comments) >= fc_args.limit
       \/ ~TruthyStr(fc_page.cursor)
       \/ ~fc_page.has_more

\* C20 as stated: a page answer with a status outside 200..299 or a body that
\* is not JSON makes fetch_comments raise; and after the scrape caught that
\* error its comment list is the parsed one.
C20_NonSuccessPageAbortsFetch ==
    /\ (/\ fc_answer # None
        /\ Val(fc_answer).kind = "http"
        /\ \/ Val(fc_answer).status \notin 200..299
           \/ Val(fc_answer).body = "bad_json")
       => fc_pc = "raised"
    /\ (sc_pc = "await_comments" \/ "comments" \in caught) =>
        [i \in DOMAIN comments |-> [comments[i] EXCEPT !.profile = None]]
            = Val(parsed).comments

\* C20: a page answer with a status of 400 or above or a body that is not
\* JSON makes fetch_comments raise, whatever earlier pages brought; while the
\* scrape waits for fetch_comments, and after it caught the error, its
\* comment list consists of the parsed comments, also in the result.
C20_ErrorPageAbortsFetch ==
    /\ (/\ fc_answer # None
        /\ Val(fc_answer).kind = "http"
        /\ \/ Val(fc_answer).status >= 400
           \/ Val(fc_answer).body = "bad_json")
       => fc_pc = "raised"
    /\ (sc_pc = "await_comments" \/ "comments" \in caught) =>
        /\ [i \in DOMAIN comments |-> [comments[i] EXCEPT !.profile = None]]
            = Val(parsed).comments
        /\ sc_result # None =>
            [i \in DOMAIN Val(sc_result).comments |->
                [Val(sc_result).comments[i] EXCEPT !.profile = None]]
            = Val(parsed).comments

\* the scrape waits for a fetch_comments call that collected comments from a
\* first page and raised on the error status of a later page
C20_Witness ==
    /\ sc_pc = "await_comments"
    /\ fc_pc = "raised"
    /\ fc_requests >= 2
    /\ Len(fc_comments) > 0
    /\ Val(fc_answer).kind = "http"
    /\ Val(fc_answer).status >= 400

----------------------------------------------------------------------------
\* Further properties of fetch_comments (under SpecFC)

\* C21 as stated: a call with limit <= 0, an empty shortcode, or an
\* existing_ids list with at least limit entries returns an empty list and
\* issues no page request.
C21_ShortCircuitOnExistingLength ==
    (\/ fc_args.limit <= 0
     \/ fc_args.shortcode = ""
     \/ Len(fc_args.existing_ids) >= fc_args.limit) =>
        /\ fc_pc \in {"idle", "returned"}
        /\ fc_comments = <<>>
        /\ fc_requests = 0

\* C21 (amended): a call with limit <= 0, an empty shortcode, or an
\* existing_ids list whose distinct non-empty ids number at least limit never
\* raises, returns an empty list and issues no page request.
C21_ShortCircuitWithoutRequest ==
    (\/ fc_args.limit <= 0
     \/ fc_args.shortcode = ""
     \/ Cardinality(ExistingIds) >= fc_args.limit) =>
        /\ fc_pc \in {"idle", "returned"}
        /\ fc_comments = <<>>
        /\ fc_requests = 0
        /\ fc_answer = None

\* a call with a usable shortcode and a positive limit returned at once
\* because its existing ids already reach the limit
C21_Witness ==
    /\ fc_pc = "returned"
    /\ fc_args.shortcode = "Cx1"
    /\ fc_args.limit > 0
    /\ Cardinality(ExistingIds) >= fc_args.limit
    /\ fc_requests = 0
    /\ fc_comments = <<>>

----------------------------------------------------------------------------
\* Further properties of fetch_profile

\* C22 (under SpecPF): between two consecutive external calls of the
\* instance the pacing delay is observed, so a step in which a lookup issues
\* a request (it enters "search" or "info") is never the step in which that
\* lookup received the answer of its previous request.
C22_PacingBetweenExternalCalls ==
    [][\A c \in Callers :
          (/\ pf_call'[c].pc \in {"search", "info"}
           /\ pf_call'[c].pc # pf_call[c].pc) =>
                pf_call'[c].requests = 0]_vars

----------------------------------------------------------------------------
\* Further properties of scrape (under Spec)

\* C23: the stages of one scrape run one after another in the order
\* canonicalize, extract, parse, comment fetch, metrics fetch, profile
\* resolution, download: no step goes back to an earlier stage or jumps over
\* one, a fetcher's request is in flight only while scrape awaits that very
\* stage, so no two calls are in flight together, and the download is awaited
\* only with every fetcher at rest.
C23_StagesStrictlySequential ==
    [][LET Rank(pc) ==
               CASE pc = "idle" -> 0
                 [] pc = "extract" -> 1
                 [] pc = "parse" -> 2
                 [] pc \in {"comments", "await_comments"} -> 3
                 [] pc \in {"metrics", "await_metrics"} -> 4
                 [] pc \in {"profiles", "resolve", "await_profile", "await_owner"} -> 5
                 [] pc \in {"download", "await_download"} -> 6
                 [] OTHER -> 7
       IN /\ Rank(sc_pc') \in {Rank(sc_pc), Rank(sc_pc) + 1, 7}
          /\ fc_pc' = "loop" => sc_pc' = "await_comments"
          /\ \A c \in Callers :
                pf_call'[c].pc \in {"search", "info", "sleep"} =>
                    c = ScrapeCaller /\ sc_pc' \in {"await_profile", "await_owner"}
          /\ sc_pc' = "await_download" =>
                /\ fc_pc' \in {"idle", "returned", "raised"}
                /\ \A c \in Callers : pf_call'[c].pc = "idle"]_vars

\* a scrape that fetched comments, merged metrics, resolved a profile and
\* downloaded the video has returned
C23_Witness ==
    /\ sc_pc = "done"
    /\ caught = {}
    /\ Len(comments) > Len(Val(parsed).comments)
    /\ Val(post).view_count # None
    /\ DOMAIN profile_lookup # {}
    /\ Val(sc_result).video_path # None

----------------------------------------------------------------------------
\* The pagination of fetch_comments (under SpecPaging)

\* C25: the pagination state of a call starts as (api_v1, none, none); the
\* page of every answered request sets it to (graphql, end_cursor, after)
\* when the page has a page_info with a non-empty end_cursor and has_next_page
\* true, else to (api_v1, next_max_id, max_id), else to
\* (api_v1, next_min_id, min_id), and when the page has none of these cursors
\* the loop ends; and every request the loop goes on to is sent to the graphql
\* endpoint with its cursor as `after` in graphql mode, and to the api_v1
\* endpoint with its cursor as max_id or min_id, as cursor_kind says, in
\* api_v1 mode.
C25_PaginationStateAndRequests ==
    /\ pg_call.requests = 0 =>
         /\ <<pg_call.mode, pg_call.cursor, pg_call.cursor_kind>>
                = <<"api_v1", None, None>>
         /\ pg_call.request = Some([endpoint |-> "api_v1", params |-> EmptyMap])
    /\ pg_call.requests > 0 =>
         LET pg == Val(pg_call.page)
             now == <<pg_call.mode, pg_call.cursor, pg_call.cursor_kind>>
         IN IF /\ pg.page_info # None
               /\ Val(pg.page_info).end_cursor \notin {None, Some("")}
               /\ Val(pg.page_info).has_next_page
            THEN now = <<"graphql", Val(pg.page_info).end_cursor, Some("after")>>
            ELSE IF pg.next_max_id \notin {None, Some("")}
            THEN now = <<"api_v1", pg.next_max_id, Some("max_id")>>
            ELSE IF pg.next_min_id \notin {None, Some("")}
            THEN now = <<"api_v1", pg.next_min_id, Some("min_id")>>
            ELSE /\ pg_call.pc = "returned"
                 /\ pg_call.cursor = None /\ pg_call.cursor_kind = None
    /\ (pg_call.pc = "loop" /\ pg_call.requests > 0) =>
         LET req == Val(pg_call.request)
             cursor == Val(pg_call.cursor)
         IN /\ pg_call.cursor \notin {None, Some("")}
            /\ pg_call.mode \in {"graphql", "api_v1"}
            /\ pg_call.mode = "graphql" =>
                 /\ pg_call.cursor_kind = Some("after")
                 /\ req = [endpoint |-> "graphql", params |-> [after |-> cursor]]
            /\ pg_call.mode = "api_v1" =>
                 /\ pg_call.cursor_kind \in {Some("max_id"), Some("min_id")}
                 /\ req.endpoint = "api_v1"
                 /\ pg_call.cursor_kind = Some("max_id") =>
                         req.params = [max_id |-> cursor]
                 /\ pg_call.cursor_kind = Some("min_id") =>
                         req.params = [min_id |-> cursor]

\* a loop went from an api_v1 page to graphql mode and, with the next page,
\* back to api_v1 paging by min_id, and goes on to that request
C25_Witness ==
    /\ pg_call.pc = "loop"
    /\ pg_call.requests = 2
    /\ pg_call.mode = "api_v1"
    /\ pg_call.cursor_kind = Some("min_id")
    /\ Val(pg_call.page).page_info # None

----------------------------------------------------------------------------
\* The video URL chosen by the parser (under SpecSelect)

\* C26: the video URL is the first that is present of the direct URL, the URL
\* and the manifest of the format of greatest height, the URL and the manifest
\* of the first format, and the page URL; it is absent only when none of them
\* is present.
C26_FirstAvailableCandidate ==
    sel_call.pc = "done" =>
        LET info == Val(sel_call.info)
            tall == TallestFormat(info.formats)
            candidates ==
                <<info.url>>
                \o (IF tall # 0
                    THEN <<info.formats[tall].url, info.formats[tall].manifest_url>>
                    ELSE <<>>)
                \o (IF Len(info.formats) > 0
                    THEN <<info.formats[1].url, info.formats[1].manifest_url>>
                    ELSE <<>>)
                \o <<info.webpage_url>>
            present == {i \in DOMAIN candidates : TruthyStr(candidates[i])}
        IN IF present = {}
           THEN ~TruthyStr(sel_call.out)
           ELSE sel_call.out = candidates[CHOOSE i \in present :
                                             \A j \in present : i <= j]

----------------------------------------------------------------------------
\* The initial comment list (under Spec)

\* C27: the comment list parse_info_payload returns has at most max_comments
\* entries, and none when comment inclusion is disabled.
C27_ParsedCommentsWithinCap ==
    parsed # None =>
        /\ Len(Val(parsed).comments) <= settings.max_comments
        /\ ~settings.include_comments => Val(parsed).comments = <<>>

----------------------------------------------------------------------------
\* Termination of fetch_comments (under SpecFC)

\* C28: fetch_comments issues a bounded number of page requests whatever the
\* upstream answers, so no answered request leaves the call in its loop with
\* exactly the ids, the comments and the pagination state it had before the
\* request (the same answer could then be given again without end).
C28_EveryPageMakesProgress ==
    [][(/\ fc_pc = "loop"
        /\ fc_pc' = "loop"
        /\ fc_requests' = fc_requests + 1) =>
            <<fc_dedupe', fc_comments', fc_page'>>
                # <<fc_dedupe, fc_comments, fc_page>>]_vars

----------------------------------------------------------------------------
\* The order of the comments of a result (under Spec)

\* C29: with comment inclusion enabled, the comment stage leaves the first
\* max_comments entries of the parsed comments followed by the fetched ones
\* (the parsed ones alone when nothing was fetched), no later step adds,
\* drops or moves a comment (profiles are attached in place), and the result
\* returns that list; so the parsed list cut to the cap is a prefix of it.
C29_ParsedThenFetchedUpToCap ==
    [][LET Bare(cs) == [i \in DOMAIN cs |-> [cs[i] EXCEPT !.profile = None]]
           fetched == IF fc_pc = "returned" THEN fc_comments ELSE <<>>
       IN settings.include_comments =>
            /\ (sc_pc = "await_comments" /\ sc_pc' = "metrics") =>
                    comments' = Take(Val(parsed).comments \o fetched,
                                     settings.max_comments)
            /\ (sc_pc = "comments" /\ sc_pc' = "metrics") =>
                    comments' = Take(Val(parsed).comments, settings.max_comments)
            /\ sc_pc \notin {"idle", "extract", "parse", "comments",
                             "await_comments"} =>
                    Bare(comments') = Bare(comments)
            /\ sc_pc' = "done" =>
                    /\ Val(sc_result').comments = comments'
                    /\ \A i \in 1..Min(Len(Val(parsed).comments),
                                       settings.max_comments) :
                          Bare(comments')[i] = Val(parsed).comments[i]]_vars

\* a scrape returned one parsed comment followed by a fetched one, with a
\* profile attached to a comment
C29_Witness ==
    /\ sc_pc = "done"
    /\ settings.include_comments
    /\ Len(Val(parsed).comments) = 1
    /\ Len(Val(sc_result).comments) = 2
    /\ Val(sc_result).comments[1].id = Val(parsed).comments[1].id
    /\ \E i \in 1..2 : Val(sc_result).comments[i].profile # None

----------------------------------------------------------------------------
\* The profile cache under concurrent lookups (under SpecPFC)

\* C30: an entry of the profile cache, once stored, is never removed and
\* never replaced by a different value, whatever calls of fetch_profile
\* follow or overlap.
C30_CacheEntriesWriteOnce ==
    [][\A key \in DOMAIN profile_cache :
          /\ key \in DOMAIN profile_cache'
          /\ profile_cache'[key] = profile_cache[key]]_vars

============================================================================
